---- MODULE Spec2Model ----
(***************************************************************************)
(* State-machine model of the mail server: the SMTP receive core, the     *)
(* POP3 and IMAP session cores and the maildir store they share.          *)
(* Every definition is translated from the C++ source it names in         *)
(* MODEL_MAP.json.  Strings that the code parses are represented by the   *)
(* parts the parser tells apart.                                          *)
(***************************************************************************)
EXTENDS Integers, Sequences, FiniteSets, TLC

(***************************************************************************)
(* Bounds of the model (configuration values and sizes of the explored    *)
(* universe, not program constants).                                      *)
(***************************************************************************)
MaxRecipients == 2
MaxMessageSize == 6
MaxMessages == 2
MaxClock == 1
MaxUid == 4
MaxSelects == 2
MaxCalls == 2
MaxLines == 2
MaxLineLen == 2
MaxHosts == 2
MaxFlagCalls == 1
MaxSegment == 2
MaxWrites == 2
MaxArgLen == 2
MaxThreads == 2
MaxConnections == 3
MaxAccepts == 5
IdlePeriod == 2
MaxReads == 3

(***************************************************************************)
(* SMTP reply codes (smtp_commands.hpp, namespace reply).                 *)
(***************************************************************************)
HELP_CODE == 214
SERVICE_READY == 220
SERVICE_CLOSING == 221
AUTH_SUCCESS == 235
OK == 250
CANNOT_VRFY == 252
AUTH_CONTINUE == 334
START_MAIL_INPUT == 354
LOCAL_ERROR == 451
SYNTAX_ERROR == 500
SYNTAX_ERROR_PARAMS == 501
COMMAND_NOT_IMPLEMENTED == 502
BAD_SEQUENCE == 503
PARAM_NOT_IMPLEMENTED == 504
AUTH_REQUIRED == 530
AUTH_INVALID == 535
MAILBOX_NOT_FOUND == 550
EXCEEDED_STORAGE == 552

VARIABLES
    smtp,          \* the SMTPSession object (fields named as in the class)
    smtp_reply,    \* code of the reply this step sent, 0 if it sent none
    smtp_input,    \* verb of the input of this step, and the address of a RCPT TO
    sender_given,  \* history: mail_from was assigned since the envelope was last cleared
    delivery,      \* per-recipient outcome of the deliver_message() of this step
    local_log,     \* history: recipients deliver_local() was called for
    relay_log,     \* history: deliver_remote() calls, and whether the session was
                   \* authenticated or relay-enabled when it made them
    db_domains     \* active rows of the credential store's domains table

VARIABLES
    fs,              \* the files of one user's maildir: [mbox, dir, id, flags, mtime, size]
    maildir_exists,  \* the maildir's cur/, new/ and tmp/ directories exist
    uidfile,         \* INBOX's .uidvalidity file: [exists, text], text the numbers in it
    clock,           \* the system clock, in seconds
    names_made       \* the unique names generate_unique_name() has handed out

VARIABLES
    pop3,          \* the POP3Session object (fields named as in the class)
    pop3_reply,    \* the response this step sent
    pop3_input     \* verb of the command of this step

smtpVars ==
    <<smtp, smtp_reply, smtp_input, sender_given, delivery, local_log, relay_log, db_domains>>
VARIABLES
    imap,          \* the IMAPSession object (fields named as in the class)
    imap_reply,    \* the responses this step sent: [tagged, untagged]
    imap_input,    \* verb of the command of this step
    reported       \* history: reported[v][u] are the unique names of the messages UID u
                   \* was reported for under UIDVALIDITY v

VARIABLES
    deliver_call,  \* the deliver() call each writer is in: [pc, name, left]
    deliver_log,   \* history: what the deliver() calls returned, 0 for ""
    listing,       \* the unique names the last list_messages() returned
    uid_call,      \* the get_mailbox_info() call each caller is in: [pc, validity, next_uid, left]
    uid_log,       \* history: what the allocate_uid() calls returned
    relay          \* the send_to_server() call of the outbound relay: [pc, content,
                   \* wire, body], wire the lines written to the socket and not yet
                   \* read by the receiving session, body the lines of the message relayed

VARIABLES
    mx             \* the deliver_remote() call of the outbound relay: [pc, has_at, answer,
                   \* records, i, result, contacted, accepted], contacted the hosts a
                   \* connection was opened to, accepted those that answered 250 to "."

VARIABLES
    md_call,       \* the set_flags(), add_flags() or remove_flags() call each session
                   \* is in: [pc, where, op, unique_id, flags, new_flags, msg, ret,
                   \* before, left], before the files when the call began
    bare,          \* the unique names whose file has a name without ":2,"
    renamed        \* history: the path the last rename of each message wrote

VARIABLES
    conn           \* the connection of a session: [proto, is_tls_, stopped_, open,
                   \* read_buffer_, posted, entered, write_queue_, inflight, written,
                   \* sent, executed, pc, other, disconnects, left]: posted the
                   \* functions send() posted that did not begin yet, entered those
                   \* a thread began, inflight the writes under way, written what
                   \* reached the socket, sent what send() was given, executed the
                   \* lines handed to on_line() and whether the session was in TLS
                   \* then, pc where the handler of a line is, other where another
                   \* caller of stop() is, disconnects the calls of on_disconnect()

VARIABLES
    running        \* the server process runs (no exception has left a handler)

VARIABLES
    server,        \* a listener: [use_tls_, sessions_, next, state, greeted], state
                   \* where each connection is, greeted the calls of on_connect()
    timer          \* the idle timer of a session: [stopped_, pending, idle,
                   \* ready_read, expired, stale, aborted, by_stale, left]:
                   \* pending a wait is under way, ready_read a read has completed
                   \* and its handler not run, expired, stale and aborted the
                   \* completions of the timer whose handler has not run, by_stale
                   \* the session was stopped by a completion of a period before

storeVars == <<fs, maildir_exists, uidfile, clock, names_made>>
pop3Vars == <<pop3, pop3_reply, pop3_input>>
imapVars == <<imap, imap_reply, imap_input, reported>>

moreVars == <<mx, md_call, bare, renamed, conn, running, server, timer>>

callVars == <<deliver_call, deliver_log, listing, uid_call, uid_log, relay, moreVars>>

vars == <<smtpVars, storeVars, pop3Vars, imapVars, callVars>>

(***************************************************************************)
(* Text of an address argument, as EmailAddress::parse sees it after the  *)
(* angle brackets and blanks are stripped: the part before the first '@', *)
(* whether there is an '@', and the part after it.                        *)
(***************************************************************************)
Txt(l, a, d) == [local |-> l, at |-> a, domain |-> d]
EmptyStr == Txt("", FALSE, "")

EmailAddress_parse(str) ==
    IF ~str.at \/ str.local = "" \/ str.domain = ""
    THEN IF str = EmptyStr
         THEN [ok |-> TRUE, local_part |-> "", domain |-> "", full_address |-> EmptyStr]
         ELSE [ok |-> FALSE, local_part |-> "", domain |-> "", full_address |-> EmptyStr]
    ELSE [ok |-> TRUE, local_part |-> str.local, domain |-> str.domain,
          full_address |-> Txt(str.local, TRUE, str.domain)]

(***************************************************************************)
(* The credential store: users table and domains table.                   *)
(***************************************************************************)
UsersTable == {Txt("u", TRUE, "w")}
ConfigLocalDomains == {"x"}
DbDomains == {"w"}
GoodPassword == "pw"

Authenticator_parse_email(email) ==
    IF ~email.at THEN <<email.local, "">> ELSE <<email.local, email.domain>>

Authenticator_authenticate(username, password) ==
    LET p == Authenticator_parse_email(username)
    IN  Txt(p[1], TRUE, p[2]) \in UsersTable /\ password = GoodPassword

Authenticator_get_user(username) ==
    LET p == Authenticator_parse_email(username)
    IN  Txt(p[1], TRUE, p[2]) \in UsersTable

Authenticator_is_local_domain(domain) == domain \in db_domains

SMTPSession_is_local_domain(domain) ==
    domain \in ConfigLocalDomains \/ Authenticator_is_local_domain(domain)

(***************************************************************************)
(* Inputs of the SMTP session.                                            *)
(***************************************************************************)
HostArgs == {"", "c"}
MailArgs == {EmptyStr, Txt("a", TRUE, "x"), Txt("a", FALSE, "")}
RcptArgs == {Txt("u", TRUE, "w"), Txt("z", TRUE, "x"), Txt("r", TRUE, "y"),
             Txt("u", TRUE, ""), EmptyStr}
Credentials == {[user |-> Txt("u", TRUE, "w"), pass |-> "pw"],
                [user |-> Txt("u", TRUE, "w"), pass |-> "no"]}
\* a SASL PLAIN blob after base64_decode: "\0user\0pass", or text without two NULs
\* (given = FALSE stands for the empty string: no initial response)
PlainBlobs == {[given |-> TRUE, nuls |-> TRUE, user |-> c.user, pass |-> c.pass] :
                   c \in Credentials}
                \cup {[given |-> TRUE, nuls |-> FALSE, user |-> EmptyStr, pass |-> ""]}
NoInitialResponse == [given |-> FALSE, nuls |-> FALSE, user |-> EmptyStr, pass |-> ""]
\* lines of message data as sent on the wire (sequences of characters)
DataLines == {<<".">>, <<".", ".">>, <<"X">>, <<".", "X">>}

SmtpStates == {"CONNECTED", "GREETED", "MAIL", "RCPT", "DATA", "QUIT"}
AuthWaiting == {"PLAIN_WAITING", "LOGIN_WAITING_USERNAME", "LOGIN_WAITING_PASSWORD"}

Envelope_clear == [mail_from |-> EmptyStr, rcpt_to |-> <<>>]

\* SMTPSession as constructed by the server's session factory
SMTPSession_new(require_auth, allow_relay, tls_configured) ==
    [state_ |-> "CONNECTED", auth_state_ |-> "NONE", envelope_ |-> Envelope_clear,
     client_hostname_ |-> "", authenticated_ |-> FALSE, username_ |-> "",
     domain_ |-> "", is_tls_ |-> FALSE,
     auth_username_ |-> EmptyStr, data_buffer_ |-> <<>>, stopped_ |-> FALSE,
     require_auth_ |-> require_auth, allow_relay_ |-> allow_relay,
     ssl_context_ |-> tls_configured, starttls_available_ |-> TRUE]

SmtpInit ==
    /\ \E ra \in BOOLEAN, ar \in BOOLEAN, tc \in BOOLEAN : smtp = SMTPSession_new(ra, ar, tc)
    /\ smtp_reply = SERVICE_READY
    /\ smtp_input = [verb |-> "connect", arg |-> EmptyStr]
    /\ sender_given = FALSE
    /\ delivery = <<>>
    /\ local_log = {}
    /\ relay_log = {}
    /\ db_domains = DbDomains

\* on_data(): the branch process_command() is taken
CommandMode ==
    /\ ~smtp.stopped_
    /\ smtp.state_ # "DATA"
    /\ smtp.auth_state_ \notin AuthWaiting

Reply(code) ==
    /\ smtp_reply' = code
    /\ delivery' = <<>>
    /\ UNCHANGED <<local_log, relay_log, db_domains>>

handle_helo(arg) ==
    IF arg = ""
    THEN /\ Reply(SYNTAX_ERROR_PARAMS)
         /\ UNCHANGED <<smtp, sender_given>>
    ELSE /\ smtp' = [smtp EXCEPT !.client_hostname_ = arg, !.state_ = "GREETED",
                                 !.envelope_ = Envelope_clear]
         /\ sender_given' = FALSE
         /\ Reply(OK)

handle_ehlo(arg) == handle_helo(arg)

handle_mail_unchecked(arg) ==
    IF smtp.state_ \notin {"GREETED", "MAIL", "RCPT"}
    THEN /\ Reply(BAD_SEQUENCE)
         /\ UNCHANGED <<smtp, sender_given>>
    ELSE LET addr == EmailAddress_parse(arg)
         IN  IF ~addr.ok
             THEN /\ Reply(SYNTAX_ERROR_PARAMS)
                  /\ UNCHANGED <<smtp, sender_given>>
             ELSE /\ smtp' = [smtp EXCEPT !.envelope_ =
                                  [mail_from |-> addr.full_address, rcpt_to |-> <<>>],
                                          !.state_ = "MAIL"]
                  /\ sender_given' = TRUE
                  /\ Reply(OK)

handle_mail(arg) ==
    IF smtp.state_ \notin {"GREETED", "MAIL", "RCPT"}
    THEN /\ Reply(BAD_SEQUENCE)
         /\ UNCHANGED <<smtp, sender_given>>
    ELSE IF smtp.require_auth_ /\ ~smtp.authenticated_
    THEN /\ Reply(AUTH_REQUIRED)
         /\ UNCHANGED <<smtp, sender_given>>
    ELSE LET addr == EmailAddress_parse(arg)
         IN  IF ~addr.ok
             THEN /\ Reply(SYNTAX_ERROR_PARAMS)
                  /\ UNCHANGED <<smtp, sender_given>>
             ELSE /\ smtp' = [smtp EXCEPT !.envelope_ =
                                  [mail_from |-> addr.full_address, rcpt_to |-> <<>>],
                                          !.state_ = "MAIL"]
                  /\ sender_given' = TRUE
                  /\ Reply(OK)


\* the mutant of handle_rcpt used for C4: the relay check is left out
handle_rcpt_norelaycheck(arg) ==
    IF smtp.state_ \notin {"MAIL", "RCPT"}
    THEN /\ Reply(BAD_SEQUENCE)
         /\ UNCHANGED <<smtp, sender_given>>
    ELSE IF Len(smtp.envelope_.rcpt_to) >= MaxRecipients
    THEN /\ Reply(EXCEEDED_STORAGE)
         /\ UNCHANGED <<smtp, sender_given>>
    ELSE LET addr == EmailAddress_parse(arg)
         IN  IF ~addr.ok \/ addr.domain = ""
             THEN /\ Reply(SYNTAX_ERROR_PARAMS)
                  /\ UNCHANGED <<smtp, sender_given>>
             ELSE IF SMTPSession_is_local_domain(addr.domain)
                     /\ ~Authenticator_get_user(addr.full_address)
             THEN /\ Reply(MAILBOX_NOT_FOUND)
                  /\ UNCHANGED <<smtp, sender_given>>
             ELSE /\ smtp' = [smtp EXCEPT !.envelope_.rcpt_to =
                                              Append(@, addr.full_address),
                                          !.state_ = "RCPT"]
                  /\ Reply(OK)
                  /\ UNCHANGED sender_given

handle_rcpt(arg) ==
    IF smtp.state_ \notin {"MAIL", "RCPT"}
    THEN /\ Reply(BAD_SEQUENCE)
         /\ UNCHANGED <<smtp, sender_given>>
    ELSE IF Len(smtp.envelope_.rcpt_to) >= MaxRecipients
    THEN /\ Reply(EXCEEDED_STORAGE)
         /\ UNCHANGED <<smtp, sender_given>>
    ELSE LET addr == EmailAddress_parse(arg)
             is_local == SMTPSession_is_local_domain(addr.domain)
         IN  IF ~addr.ok \/ addr.domain = ""
             THEN /\ Reply(SYNTAX_ERROR_PARAMS)
                  /\ UNCHANGED <<smtp, sender_given>>
             ELSE IF ~is_local /\ ~smtp.allow_relay_ /\ ~smtp.authenticated_
             THEN /\ Reply(AUTH_REQUIRED)
                  /\ UNCHANGED <<smtp, sender_given>>
             ELSE IF is_local /\ ~Authenticator_get_user(addr.full_address)
             THEN /\ Reply(MAILBOX_NOT_FOUND)
                  /\ UNCHANGED <<smtp, sender_given>>
             ELSE /\ smtp' = [smtp EXCEPT !.envelope_.rcpt_to =
                                              Append(@, addr.full_address),
                                          !.state_ = "RCPT"]
                  /\ Reply(OK)
                  /\ UNCHANGED sender_given

\* the mutant of handle_data used for C2: the order checks are left out
handle_data_unordered ==
    /\ smtp' = [smtp EXCEPT !.state_ = "DATA"]
    /\ Reply(START_MAIL_INPUT)
    /\ UNCHANGED sender_given

handle_data ==
    IF smtp.state_ # "RCPT"
    THEN /\ Reply(BAD_SEQUENCE)
         /\ UNCHANGED <<smtp, sender_given>>
    ELSE IF smtp.envelope_.rcpt_to = <<>>
    THEN /\ Reply(BAD_SEQUENCE)
         /\ UNCHANGED <<smtp, sender_given>>
    ELSE /\ smtp' = [smtp EXCEPT !.state_ = "DATA"]
         /\ Reply(START_MAIL_INPUT)
         /\ UNCHANGED sender_given

\* handle_rset with the state set in every case
handle_rset_always ==
    /\ smtp' = [smtp EXCEPT !.envelope_ = Envelope_clear, !.state_ = "GREETED"]
    /\ sender_given' = FALSE
    /\ Reply(OK)

handle_rset ==
    /\ smtp' = [smtp EXCEPT !.envelope_ = Envelope_clear,
                            !.state_ = IF @ # "CONNECTED" THEN "GREETED" ELSE @]
    /\ sender_given' = FALSE
    /\ Reply(OK)

handle_noop ==
    /\ Reply(OK)
    /\ UNCHANGED <<smtp, sender_given>>

\* handle_quit, and the stop() process_command() makes after a QUIT
handle_quit ==
    /\ smtp' = [smtp EXCEPT !.state_ = "QUIT", !.stopped_ = TRUE]
    /\ Reply(SERVICE_CLOSING)
    /\ UNCHANGED sender_given

handle_vrfy(arg) ==
    /\ UNCHANGED <<smtp, sender_given>>
    /\ LET addr == EmailAddress_parse(arg)
       IN  IF arg = EmptyStr \/ ~addr.ok
           THEN Reply(SYNTAX_ERROR_PARAMS)
           ELSE IF SMTPSession_is_local_domain(addr.domain)
                   /\ Authenticator_get_user(addr.full_address)
           THEN Reply(OK)
           ELSE Reply(CANNOT_VRFY)

\* the assignments made once authenticate() has succeeded
Authenticated(s, username) ==
    LET p == Authenticator_parse_email(username)
    IN  [s EXCEPT !.authenticated_ = TRUE, !.username_ = p[1], !.domain_ = p[2],
                  !.auth_state_ = "AUTHENTICATED"]

\* mechanism: "PLAIN", "LOGIN" or another word; initial: the initial response
handle_auth(mechanism, initial) ==
    /\ UNCHANGED sender_given
    /\ IF smtp.state_ = "CONNECTED" \/ smtp.authenticated_
       THEN /\ Reply(BAD_SEQUENCE)
            /\ UNCHANGED smtp
       ELSE IF mechanism = "PLAIN"
       THEN IF ~initial.given
            THEN /\ smtp' = [smtp EXCEPT !.auth_state_ = "PLAIN_WAITING"]
                 /\ Reply(AUTH_CONTINUE)
            ELSE IF ~initial.nuls
            THEN /\ Reply(AUTH_INVALID)
                 /\ UNCHANGED smtp
            ELSE IF Authenticator_authenticate(initial.user, initial.pass)
            THEN /\ smtp' = Authenticated(smtp, initial.user)
                 /\ Reply(AUTH_SUCCESS)
            ELSE /\ Reply(AUTH_INVALID)
                 /\ UNCHANGED smtp
       ELSE IF mechanism = "LOGIN"
       THEN /\ smtp' = [smtp EXCEPT !.auth_state_ = "LOGIN_WAITING_USERNAME"]
            /\ Reply(AUTH_CONTINUE)
       ELSE /\ Reply(PARAM_NOT_IMPLEMENTED)
            /\ UNCHANGED smtp

\* handle_starttls in a build with ENABLE_TLS, with Session::start_tls
handle_starttls ==
    IF smtp.is_tls_
    THEN /\ Reply(BAD_SEQUENCE)
         /\ UNCHANGED <<smtp, sender_given>>
    ELSE IF ~(smtp.starttls_available_ /\ ~smtp.is_tls_)
    THEN /\ Reply(COMMAND_NOT_IMPLEMENTED)
         /\ UNCHANGED <<smtp, sender_given>>
    ELSE IF ~smtp.ssl_context_
    THEN /\ Reply(LOCAL_ERROR)
         /\ UNCHANGED <<smtp, sender_given>>
    ELSE /\ smtp' = [smtp EXCEPT !.is_tls_ = TRUE, !.state_ = "CONNECTED",
                                 !.envelope_ = Envelope_clear]
         /\ sender_given' = FALSE
         /\ Reply(SERVICE_READY)

handle_help ==
    /\ Reply(HELP_CODE)
    /\ UNCHANGED <<smtp, sender_given>>

\* process_command() on a line Command::parse does not recognise
unknown_command ==
    /\ Reply(SYNTAX_ERROR)
    /\ UNCHANGED <<smtp, sender_given>>


(***************************************************************************)
(* deliver_message(): the route of each recipient and the outcomes the    *)
(* maildir store or the outbound relay can report for it.                 *)
(***************************************************************************)
deliver_route_unchecked(recipient) ==
    LET addr == EmailAddress_parse(recipient)
    IN  IF ~addr.ok THEN "invalid"
        ELSE IF SMTPSession_is_local_domain(addr.domain) THEN "local"
        ELSE "relay"

deliver_route(recipient) ==
    LET addr == EmailAddress_parse(recipient)
    IN  IF ~addr.ok THEN "invalid"
        ELSE IF SMTPSession_is_local_domain(addr.domain) THEN "local"
        ELSE IF smtp.allow_relay_ \/ smtp.authenticated_ THEN "relay"
        ELSE "denied"

RouteOutcomes(route) ==
    CASE route = "local" -> {"local_ok", "local_failed"}
      [] route = "relay" -> {"relay_ok", "relay_failed"}
      [] OTHER -> {route}

\* the outcomes deliver_message() can have, one entry per recipient
deliver_message_outcomes ==
    LET rcpt == smtp.envelope_.rcpt_to
    IN  {r \in [1..Len(rcpt) -> {"local_ok", "local_failed", "relay_ok", "relay_failed",
                                 "invalid", "denied"}] :
            \A i \in 1..Len(rcpt) : r[i] \in RouteOutcomes(deliver_route(rcpt[i]))}

\* the mutant of all_delivered used for C19: one delivered recipient is enough
all_delivered_some(r) == \E i \in 1..Len(r) : r[i] \in {"local_ok", "relay_ok"}

all_delivered(r) ==
    /\ Len(r) > 0
    /\ \A i \in 1..Len(r) : r[i] \in {"local_ok", "relay_ok"}

\* the mutant of BufferSize used for C18: the CR LF of a line is not counted
RECURSIVE BufferSize_nocrlf(_)
BufferSize_nocrlf(buf) ==
    IF buf = <<>> THEN 0 ELSE Len(Head(buf)) + BufferSize_nocrlf(Tail(buf))

RECURSIVE BufferSize(_)
BufferSize(buf) == IF buf = <<>> THEN 0 ELSE Len(Head(buf)) + 2 + BufferSize(Tail(buf))

\* the mutant of Unstuff used for C17: the line is stored as it came
Unstuff_none(line) == line

\* dot-unstuffing of one line of DATA
Unstuff(line) == IF line # <<>> /\ Head(line) = "." THEN Tail(line) ELSE line

process_data_line(line) ==
    IF line = <<".">>
    THEN \E r \in deliver_message_outcomes :
            LET rcpt == smtp.envelope_.rcpt_to
            IN  /\ delivery' = r
                /\ local_log' = local_log \cup
                       {rcpt[i] : i \in {j \in 1..Len(rcpt) : deliver_route(rcpt[j]) = "local"}}
                /\ relay_log' = relay_log \cup
                       {[recipient |-> rcpt[i],
                         authorised |-> smtp.authenticated_ \/ smtp.allow_relay_] :
                            i \in {j \in 1..Len(rcpt) : deliver_route(rcpt[j]) = "relay"}}
                /\ smtp_reply' = IF all_delivered(r) THEN OK ELSE LOCAL_ERROR
                /\ smtp' = [smtp EXCEPT !.envelope_ = Envelope_clear, !.state_ = "GREETED",
                                        !.data_buffer_ = <<>>]
                /\ sender_given' = FALSE
                /\ UNCHANGED db_domains
    ELSE LET content_line == Unstuff(line)
         IN  IF BufferSize(smtp.data_buffer_) + Len(content_line) + 2 > MaxMessageSize
             THEN /\ smtp' = [smtp EXCEPT !.envelope_ = Envelope_clear,
                                          !.state_ = "GREETED", !.data_buffer_ = <<>>]
                  /\ sender_given' = FALSE
                  /\ Reply(EXCEEDED_STORAGE)
             ELSE /\ smtp' = [smtp EXCEPT !.data_buffer_ = Append(@, content_line)]
                  /\ smtp_reply' = 0
                  /\ delivery' = <<>>
                  /\ UNCHANGED <<sender_given, local_log, relay_log, db_domains>>

\* process_auth_response(), case PLAIN_WAITING: decoded is the decoded line
auth_response_plain(decoded) ==
    /\ UNCHANGED sender_given
    /\ IF ~decoded.nuls
       THEN /\ smtp' = [smtp EXCEPT !.auth_state_ = "NONE"]
            /\ Reply(AUTH_INVALID)
       ELSE IF Authenticator_authenticate(decoded.user, decoded.pass)
       THEN /\ smtp' = Authenticated(smtp, decoded.user)
            /\ Reply(AUTH_SUCCESS)
       ELSE /\ smtp' = [smtp EXCEPT !.auth_state_ = "NONE"]
            /\ Reply(AUTH_INVALID)

\* process_auth_response(), case LOGIN_WAITING_USERNAME
auth_response_username(decoded) ==
    /\ smtp' = [smtp EXCEPT !.auth_username_ = decoded,
                            !.auth_state_ = "LOGIN_WAITING_PASSWORD"]
    /\ Reply(AUTH_CONTINUE)
    /\ UNCHANGED sender_given

\* the mutant of auth_response_password used for C20: a wrong password leaves
\* the user name and the sub-state as they were
auth_response_password_kept(decoded) ==
    /\ UNCHANGED sender_given
    /\ IF Authenticator_authenticate(smtp.auth_username_, decoded)
       THEN /\ smtp' = [Authenticated(smtp, smtp.auth_username_)
                            EXCEPT !.auth_username_ = EmptyStr]
            /\ Reply(AUTH_SUCCESS)
       ELSE /\ UNCHANGED smtp
            /\ Reply(AUTH_INVALID)

\* process_auth_response(), case LOGIN_WAITING_PASSWORD
auth_response_password(decoded) ==
    /\ UNCHANGED sender_given
    /\ IF Authenticator_authenticate(smtp.auth_username_, decoded)
       THEN /\ smtp' = [Authenticated(smtp, smtp.auth_username_)
                            EXCEPT !.auth_username_ = EmptyStr]
            /\ Reply(AUTH_SUCCESS)
       ELSE /\ smtp' = [smtp EXCEPT !.auth_state_ = "NONE", !.auth_username_ = EmptyStr]
            /\ Reply(AUTH_INVALID)


(***************************************************************************)
(* The SMTP session as a state machine: one action per kind of input line *)
(* (on_data dispatches on state_ and auth_state_), and the administrator  *)
(* creating or deleting a domain in the credential store.                 *)
(***************************************************************************)
Input(verb, arg) ==
    /\ smtp_input' = [verb |-> verb, arg |-> arg]
    /\ UNCHANGED <<storeVars, pop3Vars, imapVars, callVars>>

SmtpHelo == \E arg \in HostArgs : CommandMode /\ handle_helo(arg) /\ Input("HELO", EmptyStr)
SmtpEhlo == \E arg \in HostArgs : CommandMode /\ handle_ehlo(arg) /\ Input("EHLO", EmptyStr)
SmtpMail == \E arg \in MailArgs : CommandMode /\ handle_mail(arg) /\ Input("MAIL", EmptyStr)
SmtpRcpt == \E arg \in RcptArgs : CommandMode /\ handle_rcpt(arg) /\ Input("RCPT", arg)
SmtpData == CommandMode /\ handle_data /\ Input("DATA", EmptyStr)
SmtpRset == CommandMode /\ handle_rset /\ Input("RSET", EmptyStr)
SmtpNoop == CommandMode /\ handle_noop /\ Input("NOOP", EmptyStr)
SmtpQuit == CommandMode /\ handle_quit /\ Input("QUIT", EmptyStr)
SmtpVrfy == \E arg \in RcptArgs : CommandMode /\ handle_vrfy(arg) /\ Input("VRFY", EmptyStr)
SmtpAuth ==
    \E mechanism \in {"PLAIN", "LOGIN", "CRAM-MD5"},
       initial \in PlainBlobs \cup {NoInitialResponse} :
        CommandMode /\ handle_auth(mechanism, initial) /\ Input("AUTH", EmptyStr)
SmtpStarttls == CommandMode /\ handle_starttls /\ Input("STARTTLS", EmptyStr)
SmtpHelp == CommandMode /\ handle_help /\ Input("HELP", EmptyStr)
SmtpUnknown == CommandMode /\ unknown_command /\ Input("UNKNOWN", EmptyStr)

SmtpDataLine ==
    \E line \in DataLines :
        /\ ~smtp.stopped_
        /\ smtp.state_ = "DATA"
        /\ process_data_line(line)
        /\ Input("line", EmptyStr)

SmtpAuthResponse ==
    /\ ~smtp.stopped_
    /\ smtp.state_ # "DATA"
    /\ smtp.auth_state_ \in AuthWaiting
    /\ Input("response", EmptyStr)
    /\ CASE smtp.auth_state_ = "PLAIN_WAITING" ->
                \E decoded \in PlainBlobs : auth_response_plain(decoded)
         [] smtp.auth_state_ = "LOGIN_WAITING_USERNAME" ->
                \E c \in Credentials : auth_response_username(c.user)
         [] smtp.auth_state_ = "LOGIN_WAITING_PASSWORD" ->
                \E c \in Credentials : auth_response_password(c.pass)

\* Authenticator::create_domain / delete_domain run by the administrator
DomainChange ==
    /\ \E d \in DbDomains :
          db_domains' = IF d \in db_domains THEN db_domains \ {d} ELSE db_domains \cup {d}
    /\ delivery' = <<>>
    /\ Input("admin", EmptyStr)
    /\ smtp_reply' = 0
    /\ UNCHANGED <<smtp, sender_given, local_log, relay_log>>

SmtpNext ==
    \/ SmtpHelo \/ SmtpEhlo \/ SmtpMail \/ SmtpRcpt \/ SmtpData \/ SmtpRset
    \/ SmtpNoop \/ SmtpQuit \/ SmtpVrfy \/ SmtpAuth \/ SmtpStarttls \/ SmtpHelp
    \/ SmtpUnknown \/ SmtpDataLine \/ SmtpAuthResponse \/ DomainChange

(***************************************************************************)
(* The outbound relay sending one message to a receiving session:          *)
(* SMTPRelay::send_to_server() after the DATA command was answered 354,   *)
(* and the receiving SMTPSession reading the lines it writes.             *)
(***************************************************************************)
NoRelay == [pc |-> "idle", content |-> <<>>, wire |-> <<>>, body |-> <<>>]

\* the body lines of the messages relayed
BodyChars == {".", "X"}
BodyLines == UNION {[1..n -> BodyChars] : n \in 0..MaxLineLen}
Bodies == UNION {[1..n -> BodyLines] : n \in 0..MaxLines}

\* the text of a message as the receiving side of the first hop stored it:
\* every line followed by CR LF
RECURSIVE Content(_)
Content(body) ==
    IF body = <<>> THEN <<>> ELSE Head(body) \o <<"\r", "\n">> \o Content(Tail(body))

\* std::getline(iss, line): the characters before the first LF, and what is
\* left of the stream after it
getline(content) ==
    LET lf == {i \in 1..Len(content) : content[i] = "\n"}
        end == IF lf = {} THEN Len(content) + 1 ELSE CHOOSE i \in lf : \A j \in lf : i <= j
    IN  [line |-> SubSeq(content, 1, end - 1), rest |-> SubSeq(content, end + 1, Len(content))]

\* "Remove trailing \r if present"
strip_cr(line) ==
    IF line # <<>> /\ line[Len(line)] = "\r" THEN SubSeq(line, 1, Len(line) - 1) ELSE line

\* "Byte-stuff lines starting with ."
byte_stuff(line) == IF line # <<>> /\ Head(line) = "." THEN <<".">> \o line ELSE line

\* the receiving session after HELO, MAIL FROM, RCPT TO and DATA
ReceivingSession ==
    [SMTPSession_new(FALSE, FALSE, FALSE) EXCEPT
        !.state_ = "DATA", !.client_hostname_ = "c",
        !.envelope_ = [mail_from |-> Txt("a", TRUE, "x"), rcpt_to |-> <<Txt("u", TRUE, "w")>>]]

RelayInit ==
    /\ \E body \in Bodies :
          relay = [pc |-> "content", content |-> Content(body), wire |-> <<>>, body |-> body]
    /\ smtp = ReceivingSession
    /\ smtp_reply = START_MAIL_INPUT
    /\ smtp_input = [verb |-> "DATA", arg |-> EmptyStr]
    /\ sender_given = TRUE
    /\ delivery = <<>>
    /\ local_log = {}
    /\ relay_log = {}
    /\ db_domains = DbDomains

RelayFrame ==
    UNCHANGED <<storeVars, pop3Vars, imapVars, deliver_call, deliver_log, listing, uid_call,
                uid_log, moreVars>>

\* one turn of the while loop: a line of the content goes out
relay_send_line ==
    /\ relay.pc = "content"
    /\ relay.content # <<>>
    /\ LET got == getline(relay.content)
       IN  relay' = [relay EXCEPT !.content = got.rest,
                                  !.wire = Append(@, byte_stuff(strip_cr(got.line)))]
    /\ UNCHANGED smtpVars
    /\ RelayFrame

\* "End of data": send_command(socket, ".")
relay_send_end ==
    /\ relay.pc = "content"
    /\ relay.content = <<>>
    /\ relay' = [relay EXCEPT !.pc = "end", !.wire = Append(@, <<".">>)]
    /\ UNCHANGED smtpVars
    /\ RelayFrame

\* on_data() of the receiving session on the next line of the wire: a line
\* of data while it is in DATA, a command it does not know after that
RelayedLine ==
    /\ ~smtp.stopped_
    /\ relay.wire # <<>>
    /\ relay' = [relay EXCEPT !.wire = Tail(@)]
    /\ IF smtp.state_ = "DATA"
       THEN /\ process_data_line(Head(relay.wire))
            /\ smtp_input' = [verb |-> "line", arg |-> EmptyStr]
       ELSE /\ unknown_command
            /\ smtp_input' = [verb |-> "UNKNOWN", arg |-> EmptyStr]
    /\ RelayFrame

RelayNext == relay_send_line \/ relay_send_end \/ RelayedLine

(***************************************************************************)
(* The maildir store of one user.  A file is [mbox, dir, id, flags, mtime,*)
(* size]: id is the unique name, flags the letters after ":2,", mtime the *)
(* last write time in seconds.                                            *)
(***************************************************************************)
File(mbox, dir, id, flags, mtime, size) ==
    [mbox |-> mbox, dir |-> dir, id |-> id, flags |-> flags, mtime |-> mtime, size |-> size]

MsgIds == 1..MaxMessages

\* mailboxes a session can start from: messages delivered and not yet touched,
\* every one under its own unique name
InitialStores ==
    {S \in SUBSET {File("INBOX", "new", id, {}, t, id) : id \in MsgIds, t \in 1..MaxClock} :
        /\ \A f, g \in S : f.id = g.id => f = g
        /\ S = {} \/ \A id \in MsgIds : \E f \in S : f.id = id}

StoreInit ==
    /\ maildir_exists \in BOOLEAN
    /\ fs \in InitialStores
    /\ ~maildir_exists => fs = {}
    /\ uidfile = [exists |-> FALSE, text |-> <<>>]
    /\ clock = MaxClock
    /\ names_made = {f.id : f \in fs}

\* list_messages(): the files of cur/ and new/ sorted by timestamp; std::sort
\* is not stable and the directory order is unspecified, so files of one
\* second come in any order
ListMessages(files, mbox) ==
    LET S == {f \in files : f.mbox = mbox /\ f.dir \in {"cur", "new"}}
        n == Cardinality(S)
    IN  {s \in [1..n -> S] :
            \A i, j \in 1..n : i < j => (s[i] # s[j] /\ ~(s[j].mtime < s[i].mtime))}

Maildir_list_messages(mbox) == ListMessages(fs, mbox)

\* get_message(): the file of cur/ or new/ whose name starts with unique_id
Maildir_get_message(unique_id, mbox) ==
    {f \in fs : f.mbox = mbox /\ f.dir \in {"cur", "new"} /\ f.id = unique_id}

\* a message delivered meanwhile by the SMTP side (deliver() under a fresh name)
ExternalDelivery ==
    /\ maildir_exists
    /\ \E id \in MsgIds :
          /\ id \notin names_made
          /\ fs' = fs \cup {File("INBOX", "new", id, {}, clock, id)}
          /\ names_made' = names_made \cup {id}
    /\ UNCHANGED <<maildir_exists, uidfile, clock>>

\* a message removed meanwhile by another session (delete_message())
ExternalRemoval ==
    /\ \E f \in fs : f.mbox = "INBOX" /\ f.dir \in {"cur", "new"} /\ fs' = fs \ {f}
    /\ UNCHANGED <<maildir_exists, uidfile, clock, names_made>>

\* get_uid_validity() and then allocate_uid(), as get_mailbox_info() calls them
\* one after the other: the file after both, and the two values returned
Maildir_uid_info ==
    LET readable == uidfile.exists /\ Len(uidfile.text) >= 1
        validity == IF readable THEN uidfile.text[1] ELSE clock
        created  == IF readable THEN uidfile.text ELSE <<clock, 1>>
        next_uid == IF Len(created) >= 2 THEN created[2] ELSE 1
    IN  [uid_validity |-> validity, uid_next |-> next_uid,
         file |-> [exists |-> TRUE, text |-> <<created[1], next_uid + 1>>]]

(***************************************************************************)
(* The POP3 session.                                                      *)
(***************************************************************************)
POP3Session_new(tls_configured) ==
    [state_ |-> "AUTHORIZATION", pending_username_ |-> EmptyStr,
     authenticated_ |-> FALSE, username_ |-> "", domain_ |-> "", maildir_ |-> FALSE,
     messages_ |-> <<>>, deleted_messages_ |-> {}, stopped_ |-> FALSE,
     is_tls_ |-> FALSE, ssl_context_ |-> tls_configured, starttls_available_ |-> TRUE]

Pop3Init ==
    /\ \E tc \in BOOLEAN : pop3 = POP3Session_new(tc)
    /\ pop3_reply = [ok |-> TRUE, what |-> "greeting", n |-> 0, octets |-> 0,
                     lines |-> <<>>]
    /\ pop3_input = "connect"

response_ok(what, n, octets) ==
    pop3_reply' = [ok |-> TRUE, what |-> what, n |-> n, octets |-> octets, lines |-> <<>>]

\* a multi-line response: the status line and the lines after it
response_lines(what, n, octets, lines) ==
    pop3_reply' = [ok |-> TRUE, what |-> what, n |-> n, octets |-> octets, lines |-> lines]

response_err(what) ==
    pop3_reply' = [ok |-> FALSE, what |-> what, n |-> 0, octets |-> 0, lines |-> <<>>]

\* load_messages(): numbers 1..n in the order of list_messages("INBOX")
Pop3_load_messages(msgs) ==
    [i \in 1..Len(msgs) |-> [number |-> i, unique_id |-> msgs[i].id, size |-> msgs[i].size,
                              deleted |-> FALSE]]

Pop3_get_message(s, number) ==
    IF number < 1 \/ number > Len(s.messages_)
    THEN [found |-> FALSE, deleted |-> FALSE, unique_id |-> 0, size |-> 0]
    ELSE [found |-> TRUE, deleted |-> number \in s.deleted_messages_,
          unique_id |-> s.messages_[number].unique_id, size |-> s.messages_[number].size]

RECURSIVE SumSizes(_, _)
SumSizes(msgs, live) ==
    IF live = {} THEN 0
    ELSE LET i == CHOOSE k \in live : TRUE
         IN  msgs[i].size + SumSizes(msgs, live \ {i})

\* total_messages() counting the marked messages too
Pop3_total_messages_all(s) == Len(s.messages_)

Pop3_live(s) == {i \in 1..Len(s.messages_) : i \notin s.deleted_messages_}
Pop3_total_messages(s) == Cardinality(Pop3_live(s))
Pop3_total_size(s) == SumSizes(s.messages_, Pop3_live(s))

\* the lines of a multi-line LIST ("size") or UIDL ("unique_id"): one for each
\* entry of messages() whose deleted field is not set
Pop3_lines(s, item) ==
    LET shown == SelectSeq(s.messages_, LAMBDA msg : ~msg.deleted)
    IN  [k \in 1..Len(shown) |-> [number |-> shown[k].number, value |-> shown[k][item]]]

Pop3Unchanged == UNCHANGED <<pop3, fs, maildir_exists, uidfile, clock, names_made>>

handle_user(arg) ==
    IF pop3.state_ # "AUTHORIZATION"
    THEN response_err("Already authenticated") /\ Pop3Unchanged
    ELSE IF arg = EmptyStr
    THEN response_err("Username required") /\ Pop3Unchanged
    ELSE /\ pop3' = [pop3 EXCEPT !.pending_username_ = arg]
         /\ response_ok("User accepted", 0, 0)
         /\ UNCHANGED <<fs, maildir_exists, uidfile, clock, names_made>>

\* the mutant of handle_pass used for C3: no USER is asked for
handle_pass_nouser(arg) ==
    IF pop3.state_ # "AUTHORIZATION"
    THEN response_err("Already authenticated") /\ Pop3Unchanged
    ELSE IF arg = ""
    THEN response_err("Password required") /\ Pop3Unchanged
    ELSE \E msgs \in Maildir_list_messages("INBOX") :
            /\ pop3' = [pop3 EXCEPT !.authenticated_ = TRUE, !.maildir_ = TRUE,
                                    !.messages_ = Pop3_load_messages(msgs),
                                    !.deleted_messages_ = {},
                                    !.state_ = "TRANSACTION"]
            /\ response_ok("Authentication successful", Len(msgs), 0)
            /\ UNCHANGED <<fs, maildir_exists, uidfile, clock, names_made>>

\* handle_pass, with open_maildir() and load_messages()
handle_pass(arg) ==
    IF pop3.state_ # "AUTHORIZATION"
    THEN response_err("Already authenticated") /\ Pop3Unchanged
    ELSE IF pop3.pending_username_ = EmptyStr
    THEN response_err("USER command required first") /\ Pop3Unchanged
    ELSE IF arg = ""
    THEN response_err("Password required") /\ Pop3Unchanged
    ELSE IF Authenticator_authenticate(pop3.pending_username_, arg)
    THEN LET p == Authenticator_parse_email(pop3.pending_username_)
             s == [pop3 EXCEPT !.authenticated_ = TRUE, !.username_ = p[1],
                               !.domain_ = p[2]]
         IN  IF p[1] = "" \/ p[2] = ""
             THEN /\ pop3' = s
                  /\ response_err("Unable to open mailbox")
                  /\ UNCHANGED <<fs, maildir_exists, uidfile, clock, names_made>>
             ELSE IF ~maildir_exists
             THEN \/ /\ pop3' = [s EXCEPT !.maildir_ = TRUE]  \* initialize() fails
                     /\ response_err("Unable to open mailbox")
                     /\ UNCHANGED <<fs, maildir_exists, uidfile, clock, names_made>>
                  \/ /\ maildir_exists' = TRUE
                     /\ pop3' = [s EXCEPT !.maildir_ = TRUE, !.messages_ = <<>>,
                                          !.deleted_messages_ = {},
                                          !.state_ = "TRANSACTION"]
                     /\ response_ok("Authentication successful", 0, 0)
                     /\ UNCHANGED <<fs, uidfile, clock, names_made>>
             ELSE \E msgs \in Maildir_list_messages("INBOX") :
                     /\ pop3' = [s EXCEPT !.maildir_ = TRUE,
                                          !.messages_ = Pop3_load_messages(msgs),
                                          !.deleted_messages_ = {},
                                          !.state_ = "TRANSACTION"]
                     /\ response_ok("Authentication successful", Len(msgs), 0)
                     /\ UNCHANGED <<fs, maildir_exists, uidfile, clock, names_made>>
    ELSE /\ pop3' = [pop3 EXCEPT !.pending_username_ = EmptyStr]
         /\ response_err("Authentication failed")
         /\ UNCHANGED <<fs, maildir_exists, uidfile, clock, names_made>>

handle_stat ==
    /\ Pop3Unchanged
    /\ IF pop3.state_ # "TRANSACTION"
       THEN response_err("Not authenticated")
       ELSE response_ok("stat", Pop3_total_messages(pop3), Pop3_total_size(pop3))

\* arg: [given, num], the message number argument if there is one
handle_list(arg) ==
    /\ Pop3Unchanged
    /\ IF pop3.state_ # "TRANSACTION"
       THEN response_err("Not authenticated")
       ELSE IF arg.given
       THEN LET msg == Pop3_get_message(pop3, arg.num)
            IN  IF ~msg.found \/ msg.deleted
                THEN response_err("No such message")
                ELSE response_ok("list", arg.num, msg.size)
       ELSE response_lines("messages", Pop3_total_messages(pop3), Pop3_total_size(pop3),
                           Pop3_lines(pop3, "size"))

handle_retr(arg) ==
    /\ Pop3Unchanged
    /\ IF pop3.state_ # "TRANSACTION"
       THEN response_err("Not authenticated")
       ELSE IF ~arg.given
       THEN response_err("Message number required")
       ELSE LET msg == Pop3_get_message(pop3, arg.num)
            IN  IF ~msg.found \/ msg.deleted
                THEN response_err("No such message")
                ELSE IF Maildir_get_message(msg.unique_id, "INBOX") = {}
                THEN response_err("Unable to retrieve message")
                ELSE response_ok("octets", arg.num, msg.size)

handle_dele(arg) ==
    IF pop3.state_ # "TRANSACTION"
    THEN response_err("Not authenticated") /\ Pop3Unchanged
    ELSE IF ~arg.given
    THEN response_err("Message number required") /\ Pop3Unchanged
    ELSE LET msg == Pop3_get_message(pop3, arg.num)
         IN  IF ~msg.found
             THEN response_err("No such message") /\ Pop3Unchanged
             ELSE IF msg.deleted
             THEN response_err("Message already deleted") /\ Pop3Unchanged
             ELSE /\ pop3' = [pop3 EXCEPT !.deleted_messages_ = @ \cup {arg.num}]
                  /\ response_ok("deleted", arg.num, 0)
                  /\ UNCHANGED <<fs, maildir_exists, uidfile, clock, names_made>>

Pop3_handle_noop ==
    /\ Pop3Unchanged
    /\ IF pop3.state_ # "TRANSACTION"
       THEN response_err("Not authenticated")
       ELSE response_ok("", 0, 0)

Pop3_handle_rset ==
    IF pop3.state_ # "TRANSACTION"
    THEN response_err("Not authenticated") /\ Pop3Unchanged
    ELSE /\ pop3' = [pop3 EXCEPT !.deleted_messages_ = {}]
         /\ response_ok("messages restored", Len(pop3.messages_), 0)
         /\ UNCHANGED <<fs, maildir_exists, uidfile, clock, names_made>>

\* expunge() removing every message of the session
Pop3_expunge_all ==
    {f \in fs : /\ f.mbox = "INBOX"
                /\ \E num \in 1..Len(pop3.messages_) : pop3.messages_[num].unique_id = f.id}

\* expunge(): delete_message() for every number of deleted_messages_
Pop3_expunge_files ==
    {f \in fs : /\ f.mbox = "INBOX"
                /\ f.dir \in {"cur", "new"}
                /\ \E num \in pop3.deleted_messages_ :
                      /\ num <= Len(pop3.messages_)
                      /\ pop3.messages_[num].unique_id = f.id}

\* handle_quit, and the stop() process_command() makes after a QUIT
Pop3_handle_quit ==
    IF pop3.state_ = "TRANSACTION"
    THEN /\ pop3' = [pop3 EXCEPT !.state_ = "UPDATE", !.stopped_ = TRUE]
         /\ fs' = fs \ Pop3_expunge_files
         /\ response_ok("Goodbye", Cardinality(Pop3_expunge_files), 0)
         /\ UNCHANGED <<maildir_exists, uidfile, clock, names_made>>
    ELSE /\ pop3' = [pop3 EXCEPT !.stopped_ = TRUE]
         /\ response_ok("Goodbye", 0, 0)
         /\ UNCHANGED <<fs, maildir_exists, uidfile, clock, names_made>>

\* arg: [given, num]; given means both arguments of TOP are there
handle_top(arg) ==
    /\ Pop3Unchanged
    /\ IF pop3.state_ # "TRANSACTION"
       THEN response_err("Not authenticated")
       ELSE IF ~arg.given
       THEN response_err("Usage: TOP msg n")
       ELSE LET msg == Pop3_get_message(pop3, arg.num)
            IN  IF ~msg.found \/ msg.deleted
                THEN response_err("No such message")
                ELSE IF Maildir_get_message(msg.unique_id, "INBOX") = {}
                THEN response_err("Unable to retrieve message")
                ELSE response_ok("top", arg.num, 0)

handle_uidl(arg) ==
    /\ Pop3Unchanged
    /\ IF pop3.state_ # "TRANSACTION"
       THEN response_err("Not authenticated")
       ELSE IF arg.given
       THEN LET msg == Pop3_get_message(pop3, arg.num)
            IN  IF ~msg.found \/ msg.deleted
                THEN response_err("No such message")
                ELSE response_ok("uidl", arg.num, msg.unique_id)
       ELSE response_lines("uidl listing", 0, 0, Pop3_lines(pop3, "unique_id"))

handle_capa ==
    /\ Pop3Unchanged
    /\ response_ok("Capability list follows", 0, 0)

\* handle_stls in a build with ENABLE_TLS, with Session::start_tls
handle_stls ==
    IF pop3.is_tls_
    THEN response_err("Already using TLS") /\ Pop3Unchanged
    ELSE IF pop3.state_ # "AUTHORIZATION"
    THEN response_err("STLS only allowed before authentication") /\ Pop3Unchanged
    ELSE IF ~(pop3.starttls_available_ /\ ~pop3.is_tls_)
    THEN response_err("STLS not available") /\ Pop3Unchanged
    ELSE IF ~pop3.ssl_context_
    THEN response_err("TLS not configured") /\ Pop3Unchanged
    ELSE /\ pop3' = [pop3 EXCEPT !.is_tls_ = TRUE]
         /\ response_ok("Begin TLS negotiation", 0, 0)
         /\ UNCHANGED <<fs, maildir_exists, uidfile, clock, names_made>>

Pop3_handle_auth(mechanism) ==
    /\ Pop3Unchanged
    /\ IF pop3.state_ # "AUTHORIZATION"
       THEN response_err("Already authenticated")
       ELSE IF mechanism = ""
       THEN response_ok("mechanisms", 0, 0)
       ELSE IF mechanism \in {"PLAIN", "LOGIN"}
       THEN response_err("Use USER/PASS for authentication")
       ELSE response_err("Unknown authentication mechanism")

\* process_command() on an unknown word, and execute() on APOP, which has no handler
Pop3_unknown_command ==
    /\ Pop3Unchanged
    /\ response_err("Unknown command")

(***************************************************************************)
(* The POP3 session as a state machine: one action per command, and the   *)
(* SMTP side delivering into the mailbox meanwhile.                       *)
(***************************************************************************)
Pop3UserArgs == {EmptyStr, Txt("u", TRUE, "w"), Txt("n", TRUE, "w")}
Pop3PassArgs == {"", "pw", "no"}
Pop3NumArgs == {[given |-> FALSE, num |-> 0]}
                  \cup {[given |-> TRUE, num |-> k] : k \in 0..(MaxMessages + 1)}

Pop3Command(verb) ==
    /\ ~pop3.stopped_
    /\ pop3_input' = verb
    /\ UNCHANGED <<smtpVars, imapVars, callVars>>

Pop3User == \E arg \in Pop3UserArgs : Pop3Command("USER") /\ handle_user(arg)
Pop3Pass == \E arg \in Pop3PassArgs : Pop3Command("PASS") /\ handle_pass(arg)
Pop3Stat == Pop3Command("STAT") /\ handle_stat
Pop3List == \E arg \in Pop3NumArgs : Pop3Command("LIST") /\ handle_list(arg)
Pop3Retr == \E arg \in Pop3NumArgs : Pop3Command("RETR") /\ handle_retr(arg)
Pop3Dele == \E arg \in Pop3NumArgs : Pop3Command("DELE") /\ handle_dele(arg)
Pop3Noop == Pop3Command("NOOP") /\ Pop3_handle_noop
Pop3Rset == Pop3Command("RSET") /\ Pop3_handle_rset
Pop3Quit == Pop3Command("QUIT") /\ Pop3_handle_quit
Pop3Top == \E arg \in Pop3NumArgs : Pop3Command("TOP") /\ handle_top(arg)
Pop3Uidl == \E arg \in Pop3NumArgs : Pop3Command("UIDL") /\ handle_uidl(arg)
Pop3Capa == Pop3Command("CAPA") /\ handle_capa
Pop3Stls == Pop3Command("STLS") /\ handle_stls
Pop3Auth == \E mechanism \in {"", "PLAIN", "CRAM-MD5"} :
                Pop3Command("AUTH") /\ Pop3_handle_auth(mechanism)
Pop3Unknown == Pop3Command("UNKNOWN") /\ Pop3_unknown_command

Pop3Delivery ==
    /\ ExternalDelivery
    /\ pop3_input' = "delivery"
    /\ UNCHANGED <<pop3, pop3_reply, smtpVars, imapVars, callVars>>

Pop3Removal ==
    /\ ExternalRemoval
    /\ pop3_input' = "removal"
    /\ UNCHANGED <<pop3, pop3_reply, smtpVars, imapVars, callVars>>

\* Session::stop() on a read or write error or on the idle timeout: the
\* session ends with no command (on_disconnect() only logs)
Pop3Disconnect ==
    /\ ~pop3.stopped_
    /\ pop3' = [pop3 EXCEPT !.stopped_ = TRUE]
    /\ pop3_input' = "disconnect"
    /\ UNCHANGED <<pop3_reply, storeVars, smtpVars, imapVars, callVars>>

Pop3Next ==
    \/ Pop3User \/ Pop3Pass \/ Pop3Stat \/ Pop3List \/ Pop3Retr \/ Pop3Dele
    \/ Pop3Noop \/ Pop3Rset \/ Pop3Quit \/ Pop3Top \/ Pop3Uidl \/ Pop3Capa
    \/ Pop3Stls \/ Pop3Auth \/ Pop3Unknown \/ Pop3Delivery \/ Pop3Removal
    \/ Pop3Disconnect

(***************************************************************************)
(* The IMAP session.                                                      *)
(***************************************************************************)
NoSelection ==
    [set |-> FALSE, name |-> "", read_only |-> FALSE, uid_validity |-> 0, uid_next |-> 0,
     exists |-> 0, recent |-> 0, unseen |-> 0]

IMAPSession_new(tls_configured) ==
    [state_ |-> "NOT_AUTHENTICATED", authenticated_ |-> FALSE, username_ |-> "",
     domain_ |-> "", maildir_ |-> FALSE, selected_ |-> NoSelection, messages_ |-> <<>>,
     seq_to_uid_ |-> <<>>, uid_to_seq_ |-> <<>>, next_uid_ |-> 1, stopped_ |-> FALSE,
     is_tls_ |-> FALSE, ssl_context_ |-> tls_configured]

\* reported[v][u]: the unique names of the messages UID u was reported for
\* while the mailbox had UIDVALIDITY v; the record is kept for the first UID
WatchedUids == {1}
NothingReported == [v \in 1..MaxClock |-> [u \in WatchedUids |-> {}]]

ImapInit ==
    /\ imap = IMAPSession_new(FALSE)
    /\ imap_reply = [tagged |-> "greeting", untagged |-> <<>>]
    /\ imap_input = "connect"
    /\ reported = NothingReported

maildir_to_imap_flags(flags) ==
    {IF c = "S" THEN "\\Seen" ELSE IF c = "R" THEN "\\Answered"
     ELSE IF c = "F" THEN "\\Flagged" ELSE IF c = "T" THEN "\\Deleted" ELSE "\\Draft" :
        c \in flags \cap {"S", "R", "F", "T", "D"}}

imap_to_maildir_flags(flags) ==
    {IF f = "\\Seen" THEN "S" ELSE IF f = "\\Answered" THEN "R"
     ELSE IF f = "\\Flagged" THEN "F" ELSE IF f = "\\Deleted" THEN "T" ELSE "D" :
        f \in flags \cap {"\\Seen", "\\Answered", "\\Flagged", "\\Deleted", "\\Draft"}}

\* the mutant of load_messages used for C9: next_uid_ is not advanced
load_messages_sameuid(s, msgs) ==
    LET cache == [i \in 1..Len(msgs) |->
                     [sequence_number |-> i, uid |-> s.next_uid_,
                      unique_id |-> msgs[i].id, size |-> msgs[i].size,
                      flags |-> maildir_to_imap_flags(msgs[i].flags)
                                   \cup (IF msgs[i].dir = "new" THEN {"\\Recent"} ELSE {}),
                      internal_date |-> msgs[i].mtime]]
        uids == {cache[i].uid : i \in 1..Len(cache)}
    IN  [s EXCEPT !.messages_ = cache,
                  !.seq_to_uid_ = [i \in 1..Len(cache) |-> cache[i].uid],
                  !.uid_to_seq_ = [u \in uids |->
                      CHOOSE i \in 1..Len(cache) :
                          /\ cache[i].uid = u
                          /\ \A j \in 1..Len(cache) : cache[j].uid = u => j <= i],
                  !.selected_.exists = Len(cache)]

\* load_messages() on the list list_messages() returned, with
\* update_mailbox_counts(); the session has maildir_ and selected_ set
load_messages(s, msgs) ==
    LET cache == [i \in 1..Len(msgs) |->
                     [sequence_number |-> i, uid |-> s.next_uid_ + (i - 1),
                      unique_id |-> msgs[i].id, size |-> msgs[i].size,
                      flags |-> maildir_to_imap_flags(msgs[i].flags)
                                   \cup (IF msgs[i].dir = "new" THEN {"\\Recent"} ELSE {}),
                      internal_date |-> msgs[i].mtime]]
        uids == {cache[i].uid : i \in 1..Len(cache)}
    IN  [s EXCEPT !.messages_ = cache,
                  !.seq_to_uid_ = [i \in 1..Len(cache) |-> cache[i].uid],
                  !.uid_to_seq_ = [u \in uids |->
                      CHOOSE i \in 1..Len(cache) :
                          /\ cache[i].uid = u
                          /\ \A j \in 1..Len(cache) : cache[j].uid = u => j <= i],
                  !.next_uid_ = s.next_uid_ + Len(msgs),
                  !.selected_.exists = Len(cache),
                  !.selected_.recent =
                      Cardinality({i \in 1..Len(cache) : "\\Recent" \in cache[i].flags}),
                  !.selected_.unseen =
                      Cardinality({i \in 1..Len(cache) : "\\Seen" \notin cache[i].flags})]

\* the client's record of the UIDs reported, after the UIDs of the cache
\* entries seqs went out in a response
Report(seqs) ==
    [reported EXCEPT ![imap.selected_.uid_validity] = [u \in WatchedUids |->
        @[u] \cup {imap.messages_[i].unique_id : i \in {j \in seqs : imap.messages_[j].uid = u}}]]

\* close_mailbox()
close_mailbox(s) ==
    [s EXCEPT !.selected_ = NoSelection, !.messages_ = <<>>, !.seq_to_uid_ = <<>>,
              !.uid_to_seq_ = <<>>, !.state_ = "AUTHENTICATED"]

\* one untagged response: its kind and the numbers and flags it carries
U(kind, n, uid, flags) == [kind |-> kind, n |-> n, uid |-> uid, flags |-> flags]

ImapReply(tagged, untagged) == imap_reply' = [tagged |-> tagged, untagged |-> untagged]
ImapBad == ImapReply("BAD", <<>>)
ImapSame == UNCHANGED <<imap, fs, maildir_exists, uidfile>>

\* the elements of a set of numbers in ascending order
RECURSIVE Ascending(_)
Ascending(S) ==
    IF S = {} THEN <<>>
    ELSE LET m == CHOOSE x \in S : \A y \in S : x <= y
         IN  <<m>> \o Ascending(S \ {m})

handle_capability ==
    /\ ImapReply("OK", <<U("CAPABILITY", 0, 0, {})>>)
    /\ ImapSame

Imap_handle_noop ==
    /\ ImapReply("OK", <<>>)
    /\ ImapSame

\* handle_logout, and the stop() process_command() makes after a LOGOUT
handle_logout ==
    /\ imap' = [imap EXCEPT !.state_ = "LOGOUT", !.stopped_ = TRUE]
    /\ ImapReply("OK", <<U("BYE", 0, 0, {})>>)
    /\ UNCHANGED <<fs, maildir_exists, uidfile>>

\* handle_starttls in a build with ENABLE_TLS, with Session::start_tls
Imap_handle_starttls ==
    IF imap.is_tls_
    THEN ImapBad /\ ImapSame
    ELSE IF imap.state_ # "NOT_AUTHENTICATED"
    THEN ImapBad /\ ImapSame
    ELSE IF ~imap.ssl_context_
    THEN ImapReply("NO", <<>>) /\ ImapSame
    ELSE /\ imap' = [imap EXCEPT !.is_tls_ = TRUE]
         /\ ImapReply("OK", <<>>)
         /\ UNCHANGED <<fs, maildir_exists, uidfile>>

\* handle_login, with open_maildir()
handle_login(username, password) ==
    IF imap.state_ # "NOT_AUTHENTICATED"
    THEN ImapBad /\ ImapSame
    ELSE IF username = EmptyStr \/ password = ""
    THEN ImapBad /\ ImapSame
    ELSE IF Authenticator_authenticate(username, password)
    THEN LET p == Authenticator_parse_email(username)
             s == [imap EXCEPT !.authenticated_ = TRUE, !.username_ = p[1],
                               !.domain_ = p[2]]
         IN  IF p[1] = "" \/ p[2] = ""
             THEN /\ imap' = s
                  /\ ImapReply("NO", <<>>)
                  /\ UNCHANGED <<fs, maildir_exists, uidfile>>
             ELSE IF ~maildir_exists
             THEN \/ /\ imap' = [s EXCEPT !.maildir_ = TRUE]  \* initialize() fails
                     /\ ImapReply("NO", <<>>)
                     /\ UNCHANGED <<fs, maildir_exists, uidfile>>
                  \/ /\ maildir_exists' = TRUE
                     /\ imap' = [s EXCEPT !.maildir_ = TRUE, !.state_ = "AUTHENTICATED"]
                     /\ ImapReply("OK", <<>>)
                     /\ UNCHANGED <<fs, uidfile>>
             ELSE /\ imap' = [s EXCEPT !.maildir_ = TRUE, !.state_ = "AUTHENTICATED"]
                  /\ ImapReply("OK", <<>>)
                  /\ UNCHANGED <<fs, maildir_exists, uidfile>>
    ELSE ImapReply("NO", <<>>) /\ ImapSame

\* get_mailbox_info() finds the mailbox: cur/ exists under its path
MailboxExists(name) == name = "INBOX" /\ maildir_exists

\* select_mailbox() on a mailbox that exists; msgs is what list_messages() returns
select_mailbox(name, read_only, msgs) ==
    LET info == Maildir_uid_info
        s == [imap EXCEPT !.selected_ =
                  [set |-> TRUE, name |-> name, read_only |-> read_only,
                   uid_validity |-> info.uid_validity, uid_next |-> info.uid_next,
                   exists |-> Len(msgs), recent |-> 0, unseen |-> 0],
                          !.state_ = "SELECTED"]
    IN  load_messages(s, msgs)

SelectResponses(s) ==
    <<U("EXISTS", s.selected_.exists, 0, {}), U("RECENT", s.selected_.recent, 0, {}),
      U("UIDVALIDITY", s.selected_.uid_validity, 0, {}),
      U("UIDNEXT", s.selected_.uid_next, 0, {})>>

\* the mutant of handle_select used for C1: the state is not looked at
handle_select_anystate(mailbox) ==
    IF mailbox = ""
    THEN ImapBad /\ ImapSame
    ELSE IF ~MailboxExists(mailbox)
    THEN ImapReply("NO", <<>>) /\ ImapSame
    ELSE \E msgs \in Maildir_list_messages(mailbox) :
            /\ imap' = select_mailbox(mailbox, FALSE, msgs)
            /\ uidfile' = Maildir_uid_info.file
            /\ ImapReply("OK", SelectResponses(imap'))
            /\ UNCHANGED <<fs, maildir_exists>>

handle_select(mailbox) ==
    IF imap.state_ \notin {"AUTHENTICATED", "SELECTED"}
    THEN ImapBad /\ ImapSame
    ELSE IF mailbox = ""
    THEN ImapBad /\ ImapSame
    ELSE IF ~imap.maildir_ \/ ~MailboxExists(mailbox)
    THEN ImapReply("NO", <<>>) /\ ImapSame
    ELSE \E msgs \in Maildir_list_messages(mailbox) :
            /\ imap' = select_mailbox(mailbox, FALSE, msgs)
            /\ uidfile' = Maildir_uid_info.file
            /\ ImapReply("OK", SelectResponses(imap'))
            /\ UNCHANGED <<fs, maildir_exists>>

handle_examine(mailbox) ==
    LET mailbox_name == IF mailbox = "" THEN "INBOX" ELSE mailbox
    IN  IF imap.state_ \notin {"AUTHENTICATED", "SELECTED"}
        THEN ImapBad /\ ImapSame
        ELSE IF ~imap.maildir_ \/ ~MailboxExists(mailbox_name)
        THEN ImapReply("NO", <<>>) /\ ImapSame
        ELSE \E msgs \in Maildir_list_messages(mailbox_name) :
                /\ imap' = select_mailbox(mailbox_name, TRUE, msgs)
                /\ uidfile' = Maildir_uid_info.file
                /\ ImapReply("OK", <<U("EXISTS", imap'.selected_.exists, 0, {}),
                                     U("RECENT", imap'.selected_.recent, 0, {})>>)
                /\ UNCHANGED <<fs, maildir_exists>>

Imap_handle_list ==
    /\ ImapSame
    /\ IF imap.state_ \notin {"AUTHENTICATED", "SELECTED"}
       THEN ImapBad
       ELSE ImapReply("OK", <<U("LIST", 0, 0, {})>>)

\* handle_status, with get_mailbox_info(); mailbox "" stands for a missing name
handle_status(mailbox) ==
    IF imap.state_ \notin {"AUTHENTICATED", "SELECTED"}
    THEN ImapBad /\ ImapSame
    ELSE IF mailbox = ""
    THEN ImapBad /\ ImapSame
    ELSE IF ~MailboxExists(mailbox)
    THEN ImapReply("NO", <<>>) /\ ImapSame
    ELSE /\ uidfile' = Maildir_uid_info.file
         /\ ImapReply("OK", <<U("STATUS", Cardinality({f \in fs : f.mbox = mailbox}),
                                Maildir_uid_info.uid_next, {})>>)
         /\ UNCHANGED <<imap, fs, maildir_exists>>

\* handle_create, handle_delete, handle_rename and handle_append: the folder
\* tree is outside the model, so only the reply is kept
handle_folder_command ==
    /\ ImapSame
    /\ IF imap.state_ \notin {"AUTHENTICATED", "SELECTED"}
       THEN ImapBad
       ELSE \E tagged \in {"OK", "NO"} : ImapReply(tagged, <<>>)

handle_check ==
    /\ ImapSame
    /\ IF imap.state_ # "SELECTED" THEN ImapBad ELSE ImapReply("OK", <<>>)

\* expunge(): the cache indexes that carry \Deleted, the files delete_message()
\* removes for them, and the session after load_messages() on the new list
expunge_to_delete(s) ==
    {i \in 1..Len(s.messages_) : "\\Deleted" \in s.messages_[i].flags}

expunge_files(s) ==
    {f \in fs : /\ f.mbox = s.selected_.name
                /\ f.dir \in {"cur", "new"}
                /\ \E i \in expunge_to_delete(s) : s.messages_[i].unique_id = f.id}

handle_close ==
    IF imap.state_ # "SELECTED"
    THEN ImapBad /\ ImapSame
    ELSE \E msgs \in ListMessages(fs \ expunge_files(imap), imap.selected_.name) :
            /\ fs' = fs \ expunge_files(imap)
            /\ imap' = close_mailbox(load_messages(imap, msgs))
            /\ ImapReply("OK", <<>>)
            /\ UNCHANGED <<maildir_exists, uidfile>>

handle_expunge ==
    IF imap.state_ # "SELECTED"
    THEN ImapBad /\ ImapSame
    ELSE \E msgs \in ListMessages(fs \ expunge_files(imap), imap.selected_.name) :
            /\ fs' = fs \ expunge_files(imap)
            /\ imap' = load_messages(imap, msgs)
            /\ ImapReply("OK", [k \in 1..Cardinality(expunge_to_delete(imap)) |->
                                   U("EXPUNGE", Ascending(expunge_to_delete(imap))[k], 0, {})])
            /\ UNCHANGED <<maildir_exists, uidfile>>

\* seq_set: [valid, set], the parsed sequence set; criteria: "ALL" or "DELETED"
Imap_search(criteria, use_uid) ==
    LET hits == {i \in 1..Len(imap.messages_) :
                    criteria = "ALL" \/ "\\Deleted" \in imap.messages_[i].flags}
    IN  [k \in 1..Cardinality(hits) |->
            IF use_uid THEN imap.messages_[Ascending(hits)[k]].uid ELSE Ascending(hits)[k]]

handle_search(criteria) ==
    /\ ImapSame
    /\ IF imap.state_ # "SELECTED"
       THEN ImapBad
       ELSE ImapReply("OK", [k \in 1..Len(Imap_search(criteria, FALSE)) |->
                                U("SEARCH", Imap_search(criteria, FALSE)[k], 0, {})])

\* the cache entries a sequence set names, in cache order
Targets(seq_set) == Ascending({i \in 1..Len(imap.messages_) : i \in seq_set.set})

\* item: "UID", "FLAGS", "BODY" (BODY[]) or "BODY.PEEK" (BODY.PEEK[]); a UID
\* item reports the UID of each message fetched, a body item the content
\* get_message_content() finds for it
handle_fetch(seq_set, item) ==
    IF imap.state_ # "SELECTED"
    THEN ImapBad /\ ImapSame
    ELSE IF ~seq_set.valid
    THEN ImapBad /\ ImapSame
    ELSE LET v == imap.selected_.uid_validity
             t == Targets(seq_set)
             content(i) == Maildir_get_message(imap.messages_[i].unique_id,
                                               imap.selected_.name) # {}
         IN  /\ ImapReply("OK", [k \in 1..Len(t) |->
                       U(IF item \in {"BODY", "BODY.PEEK"} /\ content(t[k])
                         THEN "FETCH BODY[]" ELSE "FETCH", t[k],
                         IF item = "UID" THEN imap.messages_[t[k]].uid ELSE 0,
                         IF item = "FLAGS" THEN imap.messages_[t[k]].flags ELSE {})])
             /\ UNCHANGED <<imap, fs, maildir_exists, uidfile>>

\* the flags set_flags(), add_flags() or remove_flags() hands on for a message
store_flags(type, flags, old) ==
    IF type = "FLAGS" THEN flags
    ELSE IF type = "+FLAGS" THEN old \cup flags
    ELSE old \ flags

\* handle_store over the cached messages of the set: Maildir::set_flags()
\* moves the file to cur/ and renames it to its name with the new flags; the
\* cache entry is updated when the file was there
handle_store(seq_set, type, flags, silent) ==
    IF imap.state_ # "SELECTED"
    THEN ImapBad /\ ImapSame
    ELSE IF ~seq_set.valid
    THEN ImapBad /\ ImapSame
    ELSE IF type = ""
    THEN ImapBad /\ ImapSame
    ELSE LET t == Targets(seq_set)
             hit(i) == Maildir_get_message(imap.messages_[i].unique_id,
                                           imap.selected_.name) # {}
             new_flags(i) == store_flags(type, flags, imap.messages_[i].flags)
             target(f) == {i \in seq_set.set \cap 1..Len(imap.messages_) :
                              /\ imap.messages_[i].unique_id = f.id
                              /\ f.mbox = imap.selected_.name
                              /\ f.dir \in {"cur", "new"}}
         IN  /\ fs' = {IF target(f) = {} THEN f
                       ELSE [f EXCEPT !.dir = "cur",
                                      !.flags = imap_to_maildir_flags(
                                                    new_flags(CHOOSE i \in target(f) : TRUE))] :
                       f \in fs}
             /\ imap' = [imap EXCEPT !.messages_ = [i \in 1..Len(imap.messages_) |->
                            IF i \in seq_set.set /\ hit(i)
                            THEN [imap.messages_[i] EXCEPT !.flags = new_flags(i)]
                            ELSE imap.messages_[i]]]
             /\ ImapReply("OK", IF silent THEN <<>>
                                ELSE [k \in 1..Len(t) |->
                                         U("FETCH", t[k], 0, imap'.messages_[t[k]].flags)])
             /\ UNCHANGED <<maildir_exists, uidfile>>

\* handle_copy into INBOX; mailbox "" stands for a missing argument.  Each copy
\* is a deliver() of the content under the name names[k], or fails (name 0)
handle_copy(seq_set, mailbox, names) ==
    IF imap.state_ # "SELECTED"
    THEN ImapBad /\ ImapSame /\ UNCHANGED names_made
    ELSE IF mailbox = ""
    THEN ImapBad /\ ImapSame /\ UNCHANGED names_made
    ELSE IF ~seq_set.valid
    THEN ImapBad /\ ImapSame /\ UNCHANGED names_made
    ELSE LET t == Targets(seq_set)
             src(k) == Maildir_get_message(imap.messages_[t[k]].unique_id,
                                           imap.selected_.name)
             made == {k \in 1..Len(t) : src(k) # {} /\ names[k] # 0}
         IN  /\ fs' = fs \cup {File(mailbox, "new", names[k], {}, clock,
                                    (CHOOSE f \in src(k) : TRUE).size) : k \in made}
             /\ names_made' = names_made \cup {names[k] : k \in made}
             /\ ImapReply("OK", <<>>)
             /\ UNCHANGED <<imap, maildir_exists, uidfile>>

\* handle_uid: SEARCH answers with UIDs; FETCH, STORE and COPY go to the
\* handlers above with the arguments as they are
handle_uid(sub_cmd, seq_set, item, type, names) ==
    IF imap.state_ # "SELECTED"
    THEN ImapBad /\ ImapSame /\ UNCHANGED names_made
    ELSE IF sub_cmd = "SEARCH"
    THEN /\ ImapReply("OK", [k \in 1..Len(Imap_search("ALL", TRUE)) |->
                                U("SEARCH", 0, Imap_search("ALL", TRUE)[k], {})])
         /\ UNCHANGED <<imap, fs, maildir_exists, uidfile, names_made>>
    ELSE IF sub_cmd = "FETCH" THEN handle_fetch(seq_set, item) /\ UNCHANGED names_made
    ELSE IF sub_cmd = "STORE"
    THEN handle_store(seq_set, type, {"\\Deleted"}, FALSE) /\ UNCHANGED names_made
    ELSE IF sub_cmd = "COPY" THEN handle_copy(seq_set, "INBOX", names)
    ELSE ImapBad /\ ImapSame /\ UNCHANGED names_made

\* process_command() on a line that is no command
Imap_unknown_command == ImapBad /\ ImapSame

\* what the client sends
ImapUserArgs == {EmptyStr, Txt("u", TRUE, "w")}
ImapPassArgs == {"", "pw", "no"}
MailboxNames == {"", "INBOX", "Nope"}
\* a sequence set that does not parse, one number, or 1:*
NoSeqSet == [valid |-> FALSE, set |-> {}]
SeqSets == {NoSeqSet} \cup {[valid |-> TRUE, set |-> {k}] : k \in 1..MaxMessages}
              \cup {[valid |-> TRUE, set |-> 1..(MaxMessages + 1)]}
StoreTypes == {"", "+FLAGS", "-FLAGS"}
StoreFlags == {{"\\Deleted"}}
UidSubCommands == {"SEARCH", "FETCH", "STORE", "COPY", "NOOP"}

\* what deliver() returns for n copies: names never made before and all
\* different, 0 where the delivery fails
NewNames(n) ==
    {names \in [1..n -> (MsgIds \ names_made) \cup {0}] :
        \A j, k \in 1..n : (j # k /\ names[j] # 0) => names[j] # names[k]}

\* a command line of a running session; the UIDs stay within MaxUid and the
\* mailbox is opened (SELECT, EXAMINE, STATUS) MaxSelects times at most
ImapLine(verb) ==
    /\ ~imap.stopped_
    /\ imap_input' = verb
    /\ imap'.next_uid_ <= MaxUid + 1
    /\ uidfile'.exists => uidfile'.text[2] <= MaxSelects + 1
    /\ UNCHANGED <<clock, smtpVars, pop3Vars, callVars>>

ImapCommand(verb) == ImapLine(verb) /\ UNCHANGED <<names_made, reported>>

ImapCapability == handle_capability /\ ImapCommand("CAPABILITY")
ImapNoop == Imap_handle_noop /\ ImapCommand("NOOP")
ImapLogout == handle_logout /\ ImapCommand("LOGOUT")
ImapStarttls == Imap_handle_starttls /\ ImapCommand("STARTTLS")
ImapLogin ==
    \E u \in ImapUserArgs, pw \in ImapPassArgs : handle_login(u, pw) /\ ImapCommand("LOGIN")
ImapSelect == \E mb \in MailboxNames : handle_select(mb) /\ ImapCommand("SELECT")
ImapExamine == \E mb \in MailboxNames : handle_examine(mb) /\ ImapCommand("EXAMINE")
ImapList == Imap_handle_list /\ ImapCommand("LIST")
ImapStatus == \E mb \in MailboxNames : handle_status(mb) /\ ImapCommand("STATUS")
ImapFolder == handle_folder_command /\ ImapCommand("CREATE")
ImapCheck == handle_check /\ ImapCommand("CHECK")
ImapClose == handle_close /\ ImapCommand("CLOSE")
ImapExpunge == handle_expunge /\ ImapCommand("EXPUNGE")
ImapSearch == \E c \in {"ALL", "DELETED"} : handle_search(c) /\ ImapCommand("SEARCH")
ImapFetch ==
    \E q \in SeqSets, item \in {"UID", "FLAGS"} : handle_fetch(q, item) /\ ImapCommand("FETCH")
ImapStore ==
    \E q \in SeqSets, type \in StoreTypes, flags \in StoreFlags, silent \in BOOLEAN :
        handle_store(q, type, flags, silent) /\ ImapCommand("STORE")
ImapCopy ==
    \E q \in SeqSets, mb \in {"", "INBOX"} :
        \E names \in NewNames(Len(Targets(q))) :
            handle_copy(q, mb, names) /\ ImapLine("COPY") /\ UNCHANGED reported
ImapUid ==
    \E sub \in UidSubCommands :
        \E q \in IF sub \in {"FETCH", "STORE", "COPY"} THEN SeqSets ELSE {NoSeqSet} :
            \E type \in IF sub = "STORE" THEN StoreTypes ELSE {""} :
                \E item \in IF sub = "FETCH" THEN {"UID", "FLAGS"} ELSE {""} :
                    \E names \in NewNames(IF sub = "COPY" THEN Len(Targets(q)) ELSE 0) :
                        /\ handle_uid(sub, q, item, type, names)
                        /\ ImapLine("UID")
                        /\ UNCHANGED reported
ImapUnknown == Imap_unknown_command /\ ImapCommand("unknown")

\* a client that asks for the UIDs of the selected mailbox and keeps them
ClientFetchUid ==
    \E q \in SeqSets :
        /\ handle_fetch(q, "UID")
        /\ ImapLine("FETCH")
        /\ reported' = IF imap_reply'.tagged = "OK"
                        THEN Report(q.set \cap 1..Len(imap.messages_))
                        ELSE reported
        /\ UNCHANGED names_made

\* after LOGOUT the client connects again: a new session on the same store
Reconnect ==
    /\ imap.stopped_
    /\ imap' = IMAPSession_new(imap.ssl_context_)
    /\ imap_reply' = [tagged |-> "greeting", untagged |-> <<>>]
    /\ imap_input' = "connect"
    /\ UNCHANGED <<reported, storeVars, smtpVars, pop3Vars, callVars>>

ImapNext ==
    \/ ImapCapability \/ ImapNoop \/ ImapLogout \/ ImapStarttls \/ ImapLogin
    \/ ImapSelect \/ ImapExamine \/ ImapList \/ ImapStatus \/ ImapFolder
    \/ ImapCheck \/ ImapClose \/ ImapExpunge \/ ImapSearch \/ ImapFetch
    \/ ImapStore \/ ImapCopy \/ ImapUid \/ ImapUnknown

\* the commands of a client that works with UIDs over several sessions
ClientNext ==
    \/ ImapLogin \/ ImapSelect \/ ClientFetchUid \/ ImapStore \/ ImapExpunge
    \/ ImapClose \/ ImapLogout \/ Reconnect

\* a client that works with the flags of the selected mailbox: STORE in its
\* three forms with a system flag or a keyword, and FETCH of the flags and of
\* the body
FlagSets == {{"\\Seen"}, {"\\Deleted"}, {"$Label"}}

FlagStore ==
    \E q \in SeqSets, type \in {"FLAGS", "+FLAGS", "-FLAGS"}, flags \in FlagSets,
       silent \in BOOLEAN :
        handle_store(q, type, flags, silent) /\ ImapCommand("STORE")
FlagFetch == \E q \in SeqSets : handle_fetch(q, "FLAGS") /\ ImapCommand("FETCH FLAGS")
BodyFetch == \E q \in SeqSets : handle_fetch(q, "BODY") /\ ImapCommand("FETCH BODY[]")
BodyPeekFetch ==
    \E q \in SeqSets : handle_fetch(q, "BODY.PEEK") /\ ImapCommand("FETCH BODY.PEEK[]")

FlagsNext ==
    \/ ImapLogin \/ ImapSelect \/ FlagStore \/ FlagFetch \/ BodyFetch \/ BodyPeekFetch

(***************************************************************************)
(* Maildir::deliver() called by several writers on one mailbox, step by    *)
(* step, with list_messages() running in between.                         *)
(***************************************************************************)
Writers == {"W1", "W2"}

NoCalls == [w \in Writers |-> [pc |-> "idle", name |-> 0, left |-> MaxCalls]]

DeliverInit ==
    /\ deliver_call = NoCalls
    /\ deliver_log = <<>>
    /\ listing = <<>>
    /\ fs = {}
    /\ maildir_exists = TRUE
    /\ uidfile = [exists |-> FALSE, text |-> <<>>]
    /\ clock = MaxClock
    /\ names_made = {}

tmp_path(w) == {f \in fs : f.mbox = "INBOX" /\ f.dir = "tmp" /\ f.id = deliver_call[w].name}
new_path(w) == {f \in fs : f.mbox = "INBOX" /\ f.dir = "new" /\ f.id = deliver_call[w].name}

\* deliver() returns: the call is over and its result goes to the log
deliver_return(w, result) ==
    /\ deliver_call' = [deliver_call EXCEPT ![w] = [pc |-> "idle", name |-> 0, left |-> @.left - 1]]
    /\ deliver_log' = Append(deliver_log, result)

DeliverFrame == UNCHANGED <<listing, maildir_exists, uidfile, clock, uid_call, uid_log,
                            relay, moreVars, smtpVars, pop3Vars, imapVars>>

\* generate_unique_name(): seconds, microseconds, pid and a random number; no
\* step of it looks at the names made before
generate_unique_name(w) ==
    /\ deliver_call[w].pc = "idle" /\ deliver_call[w].left > 0
    /\ \E name \in MsgIds :
          /\ deliver_call' = [deliver_call EXCEPT ![w].pc = "open", ![w].name = name]
          /\ names_made' = names_made \cup {name}
    /\ UNCHANGED <<fs, deliver_log>>
    /\ DeliverFrame

\* std::ofstream file(tmp_path): the file is created, or emptied when it is there
deliver_open(w) ==
    /\ deliver_call[w].pc = "open"
    /\ \/ /\ fs' = (fs \ tmp_path(w))
                      \cup {File("INBOX", "tmp", deliver_call[w].name, {}, clock, 0)}
          /\ deliver_call' = [deliver_call EXCEPT ![w].pc = "write"]
          /\ UNCHANGED deliver_log
       \/ /\ deliver_return(w, 0)        \* !file
          /\ UNCHANGED fs
    /\ UNCHANGED names_made
    /\ DeliverFrame

\* file << content; file.flush(): the content is in the file, or the write
\* fails and tmp_path is removed
deliver_write(w) ==
    /\ deliver_call[w].pc = "write"
    /\ \/ /\ fs' = {IF f \in tmp_path(w) THEN [f EXCEPT !.size = 1] ELSE f : f \in fs}
          /\ deliver_call' = [deliver_call EXCEPT ![w].pc = "rename"]
          /\ UNCHANGED deliver_log
       \/ /\ fs' = fs \ tmp_path(w)
          /\ deliver_return(w, 0)
    /\ UNCHANGED names_made
    /\ DeliverFrame

\* std::filesystem::rename(tmp_path, new_path) replaces a file at new_path; it
\* throws when tmp_path is gone, and the handler removes tmp_path
deliver_rename(w) ==
    /\ deliver_call[w].pc = "rename"
    /\ IF tmp_path(w) # {}
       THEN /\ fs' = (fs \ (tmp_path(w) \cup new_path(w)))
                        \cup {[f EXCEPT !.dir = "new"] : f \in tmp_path(w)}
            /\ deliver_return(w, deliver_call[w].name)
       ELSE /\ UNCHANGED fs
            /\ deliver_return(w, 0)
    /\ UNCHANGED names_made
    /\ DeliverFrame

\* a list_messages() between the steps of the writers
deliver_list ==
    /\ \E msgs \in Maildir_list_messages("INBOX") :
          listing' = [i \in 1..Len(msgs) |-> msgs[i].id]
    /\ UNCHANGED <<fs, names_made, deliver_call, deliver_log, maildir_exists, uidfile, clock,
                   uid_call, uid_log, relay, moreVars, smtpVars, pop3Vars, imapVars>>

DeliverNext ==
    \/ \E w \in Writers : generate_unique_name(w)
    \/ \E w \in Writers : deliver_open(w)
    \/ \E w \in Writers : deliver_write(w)
    \/ \E w \in Writers : deliver_rename(w)
    \/ deliver_list

(***************************************************************************)
(* get_uid_validity() and allocate_uid() called by several sessions on    *)
(* one mailbox, one file operation at a time.                             *)
(***************************************************************************)
Callers == {"A", "B"}

NoUidCalls ==
    [c \in Callers |-> [pc |-> "idle", validity |-> 0, next_uid |-> 1, left |-> MaxCalls]]

UidInit ==
    /\ uid_call = NoUidCalls
    /\ uid_log = <<>>
    /\ fs = {}
    /\ maildir_exists = TRUE
    /\ uidfile = [exists |-> FALSE, text |-> <<>>]
    /\ clock = MaxClock
    /\ names_made = {}

UidFrame == UNCHANGED <<fs, maildir_exists, clock, names_made, deliver_call, deliver_log,
                        listing, relay, moreVars, smtpVars, pop3Vars, imapVars>>

Truncated == [exists |-> TRUE, text |-> <<>>]

\* get_mailbox_info() starts; get_uid_validity() reads the file
get_uid_validity_read(c) ==
    /\ uid_call[c].pc = "idle" /\ uid_call[c].left > 0
    /\ uid_call' = [uid_call EXCEPT ![c].pc =
                       IF uidfile.exists /\ Len(uidfile.text) >= 1
                       THEN "alloc_read" ELSE "validity_open"]
    /\ UNCHANGED <<uidfile, uid_log>>
    /\ UidFrame

\* std::ofstream file(uidvalidity_file) in get_uid_validity()
get_uid_validity_open(c) ==
    /\ uid_call[c].pc = "validity_open"
    /\ uidfile' = Truncated
    /\ uid_call' = [uid_call EXCEPT ![c].pc = "validity_write"]
    /\ UNCHANGED uid_log
    /\ UidFrame

\* file << validity << "\n1\n"
get_uid_validity_write(c) ==
    /\ uid_call[c].pc = "validity_write"
    /\ uidfile' = [exists |-> TRUE, text |-> <<clock, 1>>]
    /\ uid_call' = [uid_call EXCEPT ![c].pc = "alloc_read"]
    /\ UNCHANGED uid_log
    /\ UidFrame

\* allocate_uid(): file >> validity >> next_uid, on what is in the file now
allocate_uid_read(c) ==
    /\ uid_call[c].pc = "alloc_read"
    /\ uid_call' = [uid_call EXCEPT
          ![c].pc = "alloc_open",
          ![c].validity = IF uidfile.exists /\ Len(uidfile.text) >= 1
                          THEN uidfile.text[1] ELSE 0,
          ![c].next_uid = IF uidfile.exists /\ Len(uidfile.text) >= 2
                          THEN uidfile.text[2] ELSE 1]
    /\ UNCHANGED <<uidfile, uid_log>>
    /\ UidFrame

\* std::ofstream file(uidvalidity_file) in allocate_uid()
allocate_uid_open(c) ==
    /\ uid_call[c].pc = "alloc_open"
    /\ uidfile' = Truncated
    /\ uid_call' = [uid_call EXCEPT ![c].pc = "alloc_write"]
    /\ UNCHANGED uid_log
    /\ UidFrame

\* file << validity << "\n" << (next_uid + 1) << "\n"; return next_uid
allocate_uid_write(c) ==
    /\ uid_call[c].pc = "alloc_write"
    /\ uidfile' = [exists |-> TRUE,
                   text |-> <<uid_call[c].validity, uid_call[c].next_uid + 1>>]
    /\ uid_log' = Append(uid_log, uid_call[c].next_uid)
    /\ uid_call' = [uid_call EXCEPT ![c] = [pc |-> "idle", validity |-> 0, next_uid |-> 1,
                                            left |-> @.left - 1]]
    /\ UidFrame

UidNext ==
    \/ \E c \in Callers : get_uid_validity_read(c)
    \/ \E c \in Callers : get_uid_validity_open(c)
    \/ \E c \in Callers : get_uid_validity_write(c)
    \/ \E c \in Callers : allocate_uid_read(c)
    \/ \E c \in Callers : allocate_uid_open(c)
    \/ \E c \in Callers : allocate_uid_write(c)

(***************************************************************************)
(* SMTPRelay::deliver_remote(): the MX hosts of the recipient's domain are *)
(* tried one after the other with send_to_server().  A host is a number,   *)
(* 0 the domain itself; a response is the number read_response() returned  *)
(* the first three characters of, 0 when they are not a number.  Throw is  *)
(* the exception a resolve, connect, read or write ends with.              *)
(***************************************************************************)
MxHosts == 1..MaxHosts

Preferences == {10, 20}

MXRecord == [hostname : MxHosts, priority : Preferences]

\* what the DNS answers to the MX query: records of different hosts, in any order
Answers ==
    {a \in UNION {[1..n -> MXRecord] : n \in 0..MaxHosts} :
        \A i, j \in 1..Len(a) : i # j => a[i].hostname # a[j].hostname}

\* lookup_mx(): the records of the answer, sorted by operator< (std::sort is
\* free in the order of records of equal priority)
lookup_mx(answer) ==
    {r \in [1..Len(answer) -> MXRecord] :
        /\ \E f \in [1..Len(answer) -> 1..Len(answer)] :
              /\ \A i, j \in 1..Len(answer) : i # j => f[i] # f[j]
              /\ \A i \in 1..Len(answer) : r[i] = answer[f[i]]
        /\ \A i, j \in 1..Len(r) : i < j => ~(r[j].priority < r[i].priority)}

Throw == "exception"

Responses == {0, 220, 250, 251, 354, 550}

expect_code(response, expected_code) == response # 0 /\ response = expected_code

DeliveryResult_new ==
    [success |-> FALSE, reply_code |-> 0, reply_message |-> "",
     error |-> [what |-> "", response |-> 0]]

Stages == {"greeting", "ehlo", "helo", "mail", "rcpt", "data", "end", "quit"}

NoMx ==
    [pc |-> "idle", has_at |-> TRUE, answer |-> <<>>, records |-> <<>>, i |-> 0,
     result |-> DeliveryResult_new, contacted |-> <<>>, accepted |-> <<>>]

MxInit ==
    \E has_at \in BOOLEAN, answer \in Answers :
        mx = [NoMx EXCEPT !.pc = "call", !.has_at = has_at, !.answer = answer]

MxFrame == UNCHANGED <<smtpVars, storeVars, pop3Vars, imapVars, deliver_call, deliver_log,
                       listing, uid_call, uid_log, relay, md_call, bare, renamed, conn,
                       running, server, timer>>

\* deliver_remote() up to the first send_to_server()
deliver_remote_call ==
    /\ mx.pc = "call"
    /\ IF ~mx.has_at
       THEN mx' = [mx EXCEPT !.pc = "done",
                             !.result.error = [what |-> "Invalid recipient address",
                                               response |-> 0]]
       ELSE \E looked_up \in lookup_mx(mx.answer) :
               LET mx_records == IF looked_up = <<>>
                                 THEN <<[hostname |-> 0, priority |-> 0]>>
                                 ELSE looked_up
               IN  mx' = [mx EXCEPT !.records = mx_records, !.i = 1, !.pc = "greeting",
                                    !.contacted = <<mx_records[1].hostname>>]
    /\ MxFrame

\* the for loop of deliver_remote() when send_to_server() has returned result
deliver_remote_loop(result) ==
    mx' = IF result.success \/ mx.i = Len(mx.records)
          THEN [mx EXCEPT !.result = result, !.pc = "done"]
          ELSE [mx EXCEPT !.result = result, !.i = @ + 1, !.pc = "greeting",
                          !.contacted = Append(@, mx.records[mx.i + 1].hostname)]

\* send_to_server() at the response got of the exchange it is in, or at the
\* exception thrown in it
send_to_server(got, thrown) ==
    LET rejected(what) ==
            deliver_remote_loop([DeliveryResult_new EXCEPT
                                    !.error = [what |-> what, response |-> got]])
        goto(pc) == mx' = [mx EXCEPT !.pc = pc]
    IN  /\ mx.pc \in Stages
        /\ IF thrown
           THEN deliver_remote_loop([DeliveryResult_new EXCEPT
                                        !.error = [what |-> Throw, response |-> 0]])
           ELSE CASE mx.pc = "greeting" ->
                       IF expect_code(got, 220) THEN goto("ehlo")
                       ELSE rejected("Server rejected connection")
                  [] mx.pc = "ehlo" ->
                       IF expect_code(got, 250) THEN goto("mail") ELSE goto("helo")
                  [] mx.pc = "helo" ->
                       IF expect_code(got, 250) THEN goto("mail")
                       ELSE rejected("HELO rejected")
                  [] mx.pc = "mail" ->
                       IF expect_code(got, 250) THEN goto("rcpt")
                       ELSE rejected("MAIL FROM rejected")
                  [] mx.pc = "rcpt" ->
                       IF expect_code(got, 250) \/ expect_code(got, 251) THEN goto("data")
                       ELSE rejected("RCPT TO rejected")
                  [] mx.pc = "data" ->
                       IF expect_code(got, 354) THEN goto("end")
                       ELSE rejected("DATA rejected")
                  [] mx.pc = "end" ->
                       IF expect_code(got, 250)
                       THEN mx' = [mx EXCEPT !.pc = "quit",
                                             !.accepted = Append(@, mx.records[mx.i].hostname)]
                       ELSE rejected("Message rejected")
                  [] mx.pc = "quit" ->
                       deliver_remote_loop([DeliveryResult_new EXCEPT
                                               !.success = TRUE, !.reply_code = 250,
                                               !.reply_message = "Message delivered"])
        /\ MxFrame

MxCall == deliver_remote_call

MxResponse == \E got \in Responses : send_to_server(got, FALSE)

MxThrow == send_to_server(0, TRUE)

MxNext == MxCall \/ MxResponse \/ MxThrow

(***************************************************************************)
(* Maildir::set_flags(), add_flags() and remove_flags() called by the     *)
(* sessions of the thread pool, one file system call at a time.  A path   *)
(* is [dir, id, bare, flags]: the file name is the unique name alone when *)
(* bare, and the unique name, ":2," and the flag letters otherwise.       *)
(***************************************************************************)
Letters == {"S", "T"}

FlagOps == {"set_flags", "add_flags", "remove_flags"}

NoPath == [dir |-> "", id |-> 0, bare |-> TRUE, flags |-> {}]

NoFlagCalls ==
    [c \in Callers |->
        [pc |-> "idle", where |-> "", op |-> "", unique_id |-> 0, flags |-> {},
         new_flags |-> {}, msg |-> NoPath, ret |-> "none", before |-> {},
         left |-> MaxFlagCalls]]

MdPath(f) == [dir |-> f.dir, id |-> f.id, bare |-> f.id \in bare, flags |-> f.flags]

\* the files of INBOX's directory dir whose name starts with unique_id
MdFound(dir, unique_id) ==
    {f \in fs : f.mbox = "INBOX" /\ f.dir = dir /\ f.id = unique_id}

MdAt(path) == {f \in fs : f.mbox = "INBOX" /\ MdPath(f) = path}

\* mailboxes the calls can begin in: every message as delivered (new/, bare
\* name) or as an earlier set_flags() left it (cur/, bare name for no flags)
MdStores ==
    {S \in SUBSET {File("INBOX", dir, id, flags, MaxClock, id) :
                      dir \in {"new", "cur"}, id \in MsgIds, flags \in SUBSET Letters} :
        /\ \A id \in MsgIds : Cardinality({f \in S : f.id = id}) = 1
        /\ \A f \in S : f.dir = "new" => f.flags = {}}

MdInit ==
    /\ md_call = NoFlagCalls
    /\ fs \in MdStores
    /\ bare = {f.id : f \in {g \in fs : g.flags = {}}}
    /\ renamed = [id \in MsgIds |-> NoPath]
    /\ maildir_exists = TRUE
    /\ uidfile = [exists |-> FALSE, text |-> <<>>]
    /\ clock = MaxClock
    /\ names_made = {f.id : f \in fs}

MdFrame == UNCHANGED <<smtpVars, pop3Vars, imapVars, maildir_exists, uidfile, clock,
                       names_made, deliver_call, deliver_log, listing, uid_call, uid_log,
                       relay, mx, conn, running, server, timer>>

MdSameFiles == UNCHANGED <<fs, bare, renamed>>

\* std::filesystem::rename() with the file at from a file other than to's
fs_copy(from, to) ==
    LET file == CHOOSE f \in MdAt(from) : TRUE
    IN  /\ fs' = fs \cup {[file EXCEPT !.dir = to.dir, !.flags = to.flags]}
        /\ bare' = IF to.bare THEN bare \cup {to.id} ELSE bare \ {to.id}
        /\ renamed' = [renamed EXCEPT ![to.id] = to]

\* std::filesystem::rename() of an existing file: the name from is gone, and
\* the file is the one named to (a file of that name is replaced)
fs_rename(from, to) ==
    LET file == CHOOSE f \in MdAt(from) : TRUE
    IN  /\ fs' = (fs \ (MdAt(from) \cup MdAt(to)))
                     \cup {[file EXCEPT !.dir = to.dir, !.flags = to.flags]}
        /\ bare' = IF to.bare THEN bare \cup {to.id} ELSE bare \ {to.id}
        /\ renamed' = [renamed EXCEPT ![to.id] = to]

\* the flags add_flags() and remove_flags() always hand to set_flags()
Maildir_new_flags_given(op, old, flags) == flags

\* the flags add_flags() and remove_flags() hand to set_flags()
Maildir_new_flags(op, old, flags) ==
    IF op = "add_flags" THEN old \cup flags
    ELSE IF op = "remove_flags" THEN old \ flags
    ELSE flags

MdReturn(c, ret) ==
    md_call' = [md_call EXCEPT ![c].pc = "idle", ![c].ret = ret]

\* a call of set_flags(), add_flags() or remove_flags() begins
Maildir_flags_call(c, op, unique_id, flags) ==
    /\ md_call[c].pc = "idle"
    /\ md_call[c].left > 0
    /\ md_call' = [md_call EXCEPT ![c] =
           [pc |-> "get_cur", where |-> IF op = "set_flags" THEN "first" ELSE "outer",
            op |-> op, unique_id |-> unique_id, flags |-> flags, new_flags |-> flags,
            msg |-> NoPath, ret |-> "none", before |-> fs, left |-> @.left - 1]]
    /\ MdSameFiles

\* get_message(): one directory of the mailbox is searched, cur/ before new/;
\* then the caller goes on with the message found: add_flags()/remove_flags()
\* to set_flags() with the new flags, set_flags() to move_to_cur() when the
\* message is new and to its rename otherwise
Maildir_get_message_step(c) ==
    LET call == md_call[c]
        dir == IF call.pc = "get_cur" THEN "cur" ELSE "new"
        found == MdFound(dir, call.unique_id)
    IN  /\ call.pc \in {"get_cur", "get_new"}
        /\ MdSameFiles
        /\ IF found = {}
           THEN IF dir = "cur"
                THEN md_call' = [md_call EXCEPT ![c].pc = "get_new"]
                ELSE MdReturn(c, "false")
           ELSE \E f \in found :
                   IF call.where = "outer"
                   THEN md_call' = [md_call EXCEPT
                            ![c].new_flags = Maildir_new_flags(call.op, f.flags, call.flags),
                            ![c].where = "first", ![c].pc = "get_cur"]
                   ELSE IF call.where = "first" /\ f.dir = "new"
                   THEN md_call' = [md_call EXCEPT ![c].pc = "move_find"]
                   ELSE md_call' = [md_call EXCEPT ![c].msg = MdPath(f), ![c].pc = "rename"]

\* move_to_cur(): new/ is searched for the message
move_to_cur_find(c) ==
    LET call == md_call[c]
        found == MdFound("new", call.unique_id)
    IN  /\ call.pc = "move_find"
        /\ MdSameFiles
        /\ IF found = {}
           THEN md_call' = [md_call EXCEPT ![c].where = "second", ![c].pc = "get_cur"]
           ELSE \E f \in found :
                   md_call' = [md_call EXCEPT ![c].msg = MdPath(f), ![c].pc = "move_rename"]

\* move_to_cur(): the file found is renamed into cur/, with ":2," added to a
\* bare name; the rename of a file that is gone throws, and nothing catches it
move_to_cur_rename(c) ==
    LET call == md_call[c]
    IN  /\ call.pc = "move_rename"
        /\ IF MdAt(call.msg) = {}
           THEN MdReturn(c, "throw") /\ MdSameFiles
           ELSE /\ fs_rename(call.msg, [call.msg EXCEPT !.dir = "cur", !.bare = FALSE])
                /\ md_call' = [md_call EXCEPT ![c].where = "second", ![c].pc = "get_cur"]

\* set_flags(): the file found is renamed to unique_id + flags_to_info(flags)
\* in its directory; a rename that throws makes the call return false
set_flags_rename(c) ==
    LET call == md_call[c]
    IN  /\ call.pc = "rename"
        /\ IF MdAt(call.msg) = {}
           THEN MdReturn(c, "false") /\ MdSameFiles
           ELSE /\ fs_rename(call.msg, [call.msg EXCEPT !.bare = call.new_flags = {},
                                                       !.flags = call.new_flags])
                /\ MdReturn(c, "true")

MdCall(c) ==
    /\ \E op \in FlagOps, unique_id \in MsgIds, flags \in SUBSET Letters :
          Maildir_flags_call(c, op, unique_id, flags)
    /\ MdFrame

MdGet(c) == Maildir_get_message_step(c) /\ MdFrame

MdMoveFind(c) == move_to_cur_find(c) /\ MdFrame

MdMoveRename(c) == move_to_cur_rename(c) /\ MdFrame

MdRename(c) == set_flags_rename(c) /\ MdFrame

MdStep(c) == MdCall(c) \/ MdGet(c) \/ MdMoveFind(c) \/ MdMoveRename(c) \/ MdRename(c)

\* one session alone
MdNextAlone == MdStep("A")

\* the sessions of the thread pool
MdNext == \E c \in Callers : MdStep(c)

(***************************************************************************)
(* The connection of a session (class Session): lines come in through     *)
(* read_buffer_, responses go out through send(), which posts the append  *)
(* to write_queue_ to the io_context, and the handlers run on the threads *)
(* of the pool, with no strand and no lock of the session.  A line is     *)
(* [verb, via], via telling whether the client sent it in plaintext or    *)
(* through TLS; STARTTLS stands for POP3's STLS and QUIT for IMAP's       *)
(* LOGOUT too.  What goes out is [data, via], via the stream it was       *)
(* written to.                                                            *)
(***************************************************************************)
Protocols == {"IMAP", "SMTP", "POP3"}

ConnVerbs == {"STARTTLS", "NOOP", "QUIT"}

\* what a client can send in one write
Segments(via) ==
    UNION {[1..n -> {[verb |-> v, via |-> via] : v \in ConnVerbs}] : n \in 1..MaxSegment}

Session_new(proto) ==
    [proto |-> proto, is_tls_ |-> FALSE, stopped_ |-> FALSE, open |-> TRUE,
     read_buffer_ |-> <<>>, posted |-> <<>>, entered |-> <<>>, write_queue_ |-> <<>>,
     inflight |-> <<>>, written |-> <<>>, sent |-> <<>>, executed |-> <<>>,
     pc |-> "read", other |-> "idle", disconnects |-> 0, left |-> MaxWrites]

NoConn == [Session_new("") EXCEPT !.pc = "none", !.left = 0]

ConnInit == \E proto \in Protocols : conn = Session_new(proto)

ConnFrame == UNCHANGED <<smtpVars, storeVars, pop3Vars, imapVars, deliver_call, deliver_log,
                         listing, uid_call, uid_log, relay, mx, md_call, bare, renamed,
                         running, server, timer>>

\* the lines process_command() sends for a command
ConnResponses(proto, verb, is_tls) ==
    IF verb = "QUIT" /\ proto = "IMAP" THEN <<"BYE", "QUIT">>
    ELSE IF verb = "STARTTLS" /\ is_tls THEN <<"error">>
    ELSE <<verb>>

\* the stream the socket of the session is
ConnStream(s) == IF s.is_tls_ THEN "tls" ELSE "plain"

\* a write of the client arrives while async_read_until() waits for a line:
\* all of it goes into read_buffer_
ConnReceive ==
    /\ conn.pc = "read" /\ conn.open /\ conn.read_buffer_ = <<>> /\ conn.left > 0
    /\ \E segment \in Segments(ConnStream(conn)) :
          conn' = [conn EXCEPT !.read_buffer_ = segment, !.left = @ - 1]
    /\ ConnFrame

\* Session::start_tls(): the socket becomes the TLS stream
Session_start_tls(s) == IF s.is_tls_ THEN s ELSE [s EXCEPT !.is_tls_ = TRUE]

\* handle_read(): one line is taken from read_buffer_ and handed to on_line();
\* process_command() sends the responses, starts TLS on STARTTLS/STLS, and
\* after QUIT/LOGOUT goes on to stop(); then do_read() waits for the next line
Session_handle_read ==
    /\ conn.pc = "read" /\ ~conn.stopped_ /\ conn.read_buffer_ # <<>>
    /\ LET line == Head(conn.read_buffer_)
           lines == ConnResponses(conn.proto, line.verb, conn.is_tls_)
           s == [conn EXCEPT !.read_buffer_ = Tail(@),
                             !.posted = @ \o lines,
                             !.sent = @ \o lines,
                             !.executed = Append(@, [verb |-> line.verb, via |-> line.via,
                                                     is_tls |-> conn.is_tls_])]
       IN  conn' = IF line.verb = "STARTTLS" THEN Session_start_tls(s)
                   ELSE IF line.verb = "QUIT" THEN [s EXCEPT !.pc = "closing"]
                   ELSE s
    /\ ConnFrame

\* who calls stop(): the handler of QUIT/LOGOUT, and another thread (the idle
\* timer's handle_timeout(), or Server::stop() on the thread of main())
Stoppers == {"handler", "other"}

\* stop() begins: "if (stopped_) return"
Session_stop_check(who) ==
    /\ IF who = "handler"
       THEN /\ conn.pc = "closing"
            /\ conn' = [conn EXCEPT !.pc = IF conn.stopped_ THEN "stopped" ELSE "stopping"]
       ELSE /\ conn.other = "idle"
            /\ conn' = [conn EXCEPT !.other = IF conn.stopped_ THEN "done" ELSE "stopping"]
    /\ ConnFrame

\* the rest of stop(): stopped_ is set, on_disconnect() is called and the
\* socket is closed; a write under way is given up
Session_stop(who) ==
    /\ IF who = "handler" THEN conn.pc = "stopping" ELSE conn.other = "stopping"
    /\ LET s == [conn EXCEPT !.stopped_ = TRUE, !.open = FALSE, !.inflight = <<>>,
                             !.disconnects = @ + 1]
       IN  conn' = IF who = "handler" THEN [s EXCEPT !.pc = "stopped"]
                   ELSE [s EXCEPT !.other = "done"]
    /\ ConnFrame

\* do_write() for the session s: a write of the front of the queue begins
\* unless the session is stopped or the queue is empty
Session_do_write(s) ==
    IF s.stopped_ \/ s.write_queue_ = <<>> THEN s
    ELSE [s EXCEPT !.inflight = Append(@, [data |-> Head(s.write_queue_),
                                           via |-> ConnStream(s)])]

\* a thread of the pool takes the next function send() posted and begins it:
\* "bool was_empty = write_queue_.empty()"
Session_send_enter ==
    /\ conn.posted # <<>>
    /\ Len(conn.entered) < MaxThreads
    /\ conn' = [conn EXCEPT !.posted = Tail(@),
                            !.entered = Append(@, [data |-> Head(conn.posted),
                                                   was_empty |-> conn.write_queue_ = <<>>])]
    /\ ConnFrame

\* a function send() posted goes on: the data joins write_queue_, and
\* do_write() is called when the queue was empty
Session_send_posted ==
    /\ \E k \in 1..Len(conn.entered) :
          LET s == [conn EXCEPT !.entered = [i \in 1..(Len(@) - 1) |->
                                                IF i < k THEN @[i] ELSE @[i + 1]],
                                !.write_queue_ = Append(@, conn.entered[k].data)]
          IN  conn' = IF conn.entered[k].was_empty THEN Session_do_write(s) ELSE s
    /\ ConnFrame

\* a write under way is done: its data is on the socket, and handle_write()
\* takes the front off the queue and goes on with the next.  pop_front() of
\* an empty queue is undefined: the model follows the session no further
Session_handle_write ==
    /\ conn.open /\ conn.pc # "undefined"
    /\ \E k \in 1..Len(conn.inflight) :
          LET s == [conn EXCEPT !.inflight = [i \in 1..(Len(@) - 1) |->
                                                 IF i < k THEN @[i] ELSE @[i + 1]],
                                !.written = Append(@, conn.inflight[k])]
          IN  conn' = IF conn.write_queue_ = <<>>
                      THEN [s EXCEPT !.pc = "undefined", !.open = FALSE, !.inflight = <<>>,
                                     !.posted = <<>>, !.entered = <<>>, !.other = "done"]
                      ELSE Session_do_write([s EXCEPT !.write_queue_ = Tail(@)])
    /\ ConnFrame

ConnStopCheck == \E who \in Stoppers : Session_stop_check(who)

ConnStop == \E who \in Stoppers : Session_stop(who)

ConnNext ==
    \/ ConnReceive \/ Session_handle_read \/ ConnStopCheck \/ ConnStop
    \/ Session_send_enter \/ Session_send_posted \/ Session_handle_write

(***************************************************************************)
(* The POP3 commands with a message number, as the text the client sent:  *)
(* the handlers convert it with std::stoul(), and an exception that       *)
(* leaves a handler leaves io_context::run() and the thread of the pool   *)
(* with it, which ends the process (std::terminate).                      *)
(***************************************************************************)
ArgChars == {"1", "2", "x"}

ArgTexts == UNION {[1..n -> ArgChars] : n \in 0..MaxArgLen}

IsDigit(c) == c \in {"1", "2"}

DigitValue(c) == IF c = "1" THEN 1 ELSE 2

\* std::stoul(): the number the leading digits spell; std::invalid_argument
\* when the text does not begin with a digit (blanks and signs are not in the
\* texts of the model)
RECURSIVE stoul_digits(_, _)
stoul_digits(text, value) ==
    IF text = <<>> \/ ~IsDigit(Head(text)) THEN value
    ELSE stoul_digits(Tail(text), value * 10 + DigitValue(Head(text)))

stoul(text) ==
    [thrown |-> text = <<>> \/ ~IsDigit(Head(text)), value |-> stoul_digits(text, 0)]

NumberVerbs == {"LIST", "RETR", "DELE", "TOP", "UIDL"}

Pop3_handler(verb, arg) ==
    CASE verb = "LIST" -> handle_list(arg)
      [] verb = "RETR" -> handle_retr(arg)
      [] verb = "DELE" -> handle_dele(arg)
      [] verb = "TOP" -> handle_top(arg)
      [] verb = "UIDL" -> handle_uidl(arg)

\* process_command() on a command with a message number: the handler answers
\* for the state and for a missing argument before it converts the text
Pop3_process_command(verb, text) ==
    /\ running
    /\ ~pop3.stopped_
    /\ IF pop3.state_ # "TRANSACTION" \/ text = <<>>
       THEN Pop3Command(verb) /\ Pop3_handler(verb, [given |-> text # <<>>, num |-> 0])
       ELSE IF stoul(text).thrown
       THEN /\ running' = FALSE
            /\ pop3_input' = verb
            /\ UNCHANGED <<pop3, pop3_reply, smtpVars, storeVars, imapVars, deliver_call,
                           deliver_log, listing, uid_call, uid_log, relay, mx, md_call,
                           bare, renamed, conn, server, timer>>
       ELSE Pop3Command(verb)
                /\ Pop3_handler(verb, [given |-> TRUE, num |-> stoul(text).value])

Pop3Number == \E verb \in NumberVerbs, text \in ArgTexts : Pop3_process_command(verb, text)

ArgsNext ==
    \/ running /\ Pop3User
    \/ running /\ Pop3Pass
    \/ running /\ Pop3Stat
    \/ running /\ Pop3Rset
    \/ running /\ Pop3Quit
    \/ Pop3Number

(***************************************************************************)
(* The listener (class Server): do_accept() takes the connections one by  *)
(* one, puts the session of each into sessions_ while there are fewer     *)
(* than max_connections_ of them, and starts it.  MaxConnections stands   *)
(* for max_connections_, use_tls_ tells an implicit-TLS listener.         *)
(***************************************************************************)
Sessions == 1..MaxAccepts

ServerNew(use_tls) ==
    [use_tls_ |-> use_tls, sessions_ |-> {}, next |-> 1,
     state |-> [id \in Sessions |-> "none"],
     greeted |-> [id \in Sessions |-> <<>>]]

NoServer == [ServerNew(FALSE) EXCEPT !.next = MaxAccepts + 1]

ServerInit == \E use_tls \in BOOLEAN : server = ServerNew(use_tls)

ServerFrame == UNCHANGED <<smtpVars, storeVars, pop3Vars, imapVars, deliver_call, deliver_log,
                           listing, uid_call, uid_log, relay, mx, md_call, bare, renamed,
                           conn, running, timer>>

\* the connections that are open
Live(sv) == {id \in Sessions : sv.state[id] \in {"handshake", "open", "failed"}}

\* Session::start(): on_connect() is called first (the protocol's greeting is
\* sent); then the TLS handshake begins on an implicit-TLS session, and the
\* reading on a plain one.  greeted tells where the session was at the call
Session_start(sv, id) ==
    [sv EXCEPT !.greeted[id] = Append(@, IF sv.use_tls_ THEN "handshaking" ELSE "plain"),
               !.state[id] = IF sv.use_tls_ THEN "handshake" ELSE "open"]

\* the handler of do_accept(): a connection is there
Server_do_accept ==
    /\ server.next <= MaxAccepts
    /\ LET id == server.next
           sv == [server EXCEPT !.next = @ + 1]
       IN  server' = IF Cardinality(sv.sessions_) < MaxConnections
                     THEN Session_start([sv EXCEPT !.sessions_ = @ \cup {id}], id)
                     ELSE [sv EXCEPT !.state[id] = "refused"]
    /\ ServerFrame

\* the handshake of an implicit-TLS session ends: on_tls_handshake_complete()
\* and do_read(), or on_error() and nothing more
Session_handshake ==
    /\ \E id \in Sessions, ok \in BOOLEAN :
          /\ server.state[id] = "handshake"
          /\ server' = [server EXCEPT !.state[id] = IF ok THEN "open" ELSE "failed"]
    /\ ServerFrame

\* a session stops (Session::stop(): on_disconnect(), close_socket()); nothing
\* calls Server::on_session_end() or remove_session()
Server_session_stop ==
    /\ \E id \in Live(server) : server' = [server EXCEPT !.state[id] = "closed"]
    /\ ServerFrame

ServerNext == Server_do_accept \/ Session_handshake \/ Server_session_stop

(***************************************************************************)
(* The idle timer of a session.  A wait that is cancelled completes with   *)
(* operation_aborted; a wait that has expired completes without an error,  *)
(* and cancel() no longer reaches it.  The completions wait in the         *)
(* io_context until a thread runs their handler: ready_read a line that    *)
(* has arrived, expired and aborted the completions of the timer, stale    *)
(* those that expired before a later read armed the timer again.  idle     *)
(* counts the time since the timer was armed, IdlePeriod being timeout_.   *)
(***************************************************************************)
TimerNew ==
    [stopped_ |-> FALSE, pending |-> TRUE, idle |-> 0, ready_read |-> FALSE,
     expired |-> 0, stale |-> 0, aborted |-> 0, by_stale |-> FALSE, left |-> MaxReads]

NoTimer == [TimerNew EXCEPT !.pending = FALSE, !.stopped_ = TRUE, !.left = 0]

TimerInit == timer = TimerNew

TimerFrame == UNCHANGED <<smtpVars, storeVars, pop3Vars, imapVars, deliver_call, deliver_log,
                          listing, uid_call, uid_log, relay, mx, md_call, bare, renamed,
                          conn, running, server>>

\* time passes while the timer waits
TimerTick ==
    /\ ~timer.stopped_ /\ timer.pending /\ timer.idle < IdlePeriod
    /\ timer' = [timer EXCEPT !.idle = @ + 1]
    /\ TimerFrame

\* a line of the client arrives: the read completes
TimerData ==
    /\ ~timer.stopped_ /\ ~timer.ready_read /\ timer.left > 0
    /\ timer' = [timer EXCEPT !.ready_read = TRUE, !.left = @ - 1]
    /\ TimerFrame

\* the period is over: the wait completes without an error
TimerExpire ==
    /\ timer.pending /\ timer.idle = IdlePeriod
    /\ timer' = [timer EXCEPT !.pending = FALSE, !.expired = @ + 1]
    /\ TimerFrame

\* timeout_timer_.cancel(): a wait still pending completes with
\* operation_aborted; one that has expired stays as it is
Timer_cancel(t) == IF t.pending THEN [t EXCEPT !.pending = FALSE, !.aborted = @ + 1] ELSE t

\* reset_timeout(): cancel(), expires_after(timeout_), async_wait().  The
\* completions of waits that expired before belong to a period that is over
Session_reset_timeout(t) ==
    [Timer_cancel(t) EXCEPT !.pending = TRUE, !.idle = 0,
                            !.stale = @ + t.expired, !.expired = 0]

\* handle_read() of a line: nothing when the session is stopped, else the
\* timer is reset and the line handled
TimerRead ==
    /\ timer.ready_read
    /\ timer' = IF timer.stopped_ THEN [timer EXCEPT !.ready_read = FALSE]
                ELSE Session_reset_timeout([timer EXCEPT !.ready_read = FALSE])
    /\ TimerFrame

\* the completions of the timer a thread can run the handler of
TimerCompletions == {"aborted", "expired", "stale"}

\* handle_timeout(ec) for a completion: nothing for operation_aborted; else
\* (ec tells no error, for the wait of this period and of one before alike)
\* the session is stopped unless it is stopped already; stop() cancels the
\* timer
Session_handle_timeout(completion) ==
    /\ timer[completion] > 0
    /\ LET t == [timer EXCEPT ![completion] = @ - 1]
       IN  timer' = IF completion = "aborted" \/ t.stopped_ THEN t
                    ELSE Timer_cancel([t EXCEPT !.stopped_ = TRUE,
                                                !.by_stale = completion = "stale"])
    /\ TimerFrame

TimerTimeout == \E completion \in TimerCompletions : Session_handle_timeout(completion)

TimerNext == TimerTick \/ TimerData \/ TimerExpire \/ TimerRead \/ TimerTimeout

(***************************************************************************)
(* Specifications.                                                        *)
(***************************************************************************)
\* the states the other parts are in while one part is explored
SmtpIdle ==
    /\ smtp = SMTPSession_new(TRUE, FALSE, FALSE)
    /\ smtp_reply = 0
    /\ smtp_input = [verb |-> "none", arg |-> EmptyStr]
    /\ sender_given = FALSE
    /\ delivery = <<>>
    /\ local_log = {}
    /\ relay_log = {}
    /\ db_domains = DbDomains

StoreIdle ==
    /\ fs = {}
    /\ maildir_exists = FALSE
    /\ uidfile = [exists |-> FALSE, text |-> <<>>]
    /\ clock = 1
    /\ names_made = {}

ImapIdle ==
    /\ imap = IMAPSession_new(FALSE)
    /\ imap_reply = [tagged |-> "", untagged |-> <<>>]
    /\ imap_input = "none"
    /\ reported = NothingReported

MxIdle == mx = NoMx

MdIdle == md_call = NoFlagCalls /\ bare = {} /\ renamed = [id \in MsgIds |-> NoPath]

ConnIdle == conn = NoConn

NetIdle == server = NoServer /\ timer = NoTimer

\* all the rest but the listener and the timer
CallsIdleBut ==
    /\ deliver_call = NoCalls /\ deliver_log = <<>> /\ listing = <<>>
    /\ uid_call = NoUidCalls /\ uid_log = <<>> /\ relay = NoRelay
    /\ MxIdle /\ MdIdle /\ ConnIdle /\ running = TRUE

MoreIdle == MxIdle /\ MdIdle /\ ConnIdle /\ NetIdle /\ running = TRUE

CallsIdle ==
    /\ deliver_call = NoCalls
    /\ deliver_log = <<>>
    /\ listing = <<>>
    /\ uid_call = NoUidCalls
    /\ uid_log = <<>>
    /\ relay = NoRelay
    /\ MoreIdle

Pop3Idle ==
    /\ pop3 = POP3Session_new(FALSE)
    /\ pop3_reply = [ok |-> TRUE, what |-> "", n |-> 0, octets |-> 0, lines |-> <<>>]
    /\ pop3_input = "none"

InitPOP3 == Pop3Init /\ StoreInit /\ SmtpIdle /\ ImapIdle /\ CallsIdle

InitIMAP == ImapInit /\ StoreInit /\ SmtpIdle /\ Pop3Idle /\ CallsIdle

InitSMTP == SmtpInit /\ StoreIdle /\ Pop3Idle /\ ImapIdle /\ CallsIdle

InitDeliver ==
    DeliverInit /\ uid_call = NoUidCalls /\ uid_log = <<>> /\ relay = NoRelay /\ MoreIdle
                /\ SmtpIdle /\ Pop3Idle /\ ImapIdle

InitRelay == RelayInit /\ StoreIdle /\ Pop3Idle /\ ImapIdle /\ deliver_call = NoCalls
                       /\ deliver_log = <<>> /\ listing = <<>> /\ uid_call = NoUidCalls
                       /\ uid_log = <<>> /\ MoreIdle

InitMx == MxInit /\ SmtpIdle /\ StoreIdle /\ Pop3Idle /\ ImapIdle /\ deliver_call = NoCalls
                /\ deliver_log = <<>> /\ listing = <<>> /\ uid_call = NoUidCalls
                /\ uid_log = <<>> /\ relay = NoRelay /\ MdIdle /\ ConnIdle
                /\ running = TRUE /\ NetIdle

InitMd == MdInit /\ SmtpIdle /\ Pop3Idle /\ ImapIdle /\ deliver_call = NoCalls
                /\ deliver_log = <<>> /\ listing = <<>> /\ uid_call = NoUidCalls
                /\ uid_log = <<>> /\ relay = NoRelay /\ MxIdle /\ ConnIdle
                /\ running = TRUE /\ NetIdle

InitConn == ConnInit /\ SmtpIdle /\ StoreIdle /\ Pop3Idle /\ ImapIdle /\ deliver_call = NoCalls
                /\ deliver_log = <<>> /\ listing = <<>> /\ uid_call = NoUidCalls
                /\ uid_log = <<>> /\ relay = NoRelay /\ MxIdle /\ MdIdle
                /\ running = TRUE /\ NetIdle

InitUid ==
    UidInit /\ deliver_call = NoCalls /\ deliver_log = <<>> /\ listing = <<>> /\ relay = NoRelay
            /\ SmtpIdle /\ Pop3Idle /\ ImapIdle /\ MoreIdle

SpecPOP3 == InitPOP3 /\ [][Pop3Next]_vars

SpecIMAP == InitIMAP /\ [][ImapNext]_vars

SpecClient == InitIMAP /\ [][ClientNext]_vars

SpecFlags == InitIMAP /\ [][FlagsNext]_vars

SpecSMTP == InitSMTP /\ [][SmtpNext]_vars

SpecDeliver == InitDeliver /\ [][DeliverNext]_vars

SpecUid == InitUid /\ [][UidNext]_vars

SpecRelay == InitRelay /\ [][RelayNext]_vars

SpecMx == InitMx /\ [][MxNext]_vars

SpecMdAlone == InitMd /\ [][MdNextAlone]_vars

SpecMd == InitMd /\ [][MdNext]_vars

SpecConn == InitConn /\ [][ConnNext]_vars

SpecArgs == InitPOP3 /\ [][ArgsNext]_vars

InitServer == ServerInit /\ SmtpIdle /\ StoreIdle /\ Pop3Idle /\ ImapIdle /\ CallsIdleBut
                /\ timer = NoTimer

SpecServer == InitServer /\ [][ServerNext]_vars

InitTimer == TimerInit /\ SmtpIdle /\ StoreIdle /\ Pop3Idle /\ ImapIdle /\ CallsIdleBut
                /\ server = NoServer

SpecTimer == InitTimer /\ [][TimerNext]_vars

(***************************************************************************)
(* Claims.                                                                *)
(***************************************************************************)
Last(seq) == seq[Len(seq)]

\* C2: MAIL FROM is accepted only after an accepted HELO/EHLO, RCPT TO only
\* after an accepted MAIL FROM (the envelope's sender was assigned), DATA only
\* with at least one accepted recipient; a command out of this order is
\* answered 503 and leaves the session (state and envelope) unchanged; and
\* in state RCPT or DATA the envelope holds a sender and a recipient.
C2_InOrder ==
    LET verb == smtp_input'.verb
    IN  /\ (verb = "MAIL" /\ smtp_reply' = OK) => smtp.client_hostname_ # ""
        /\ (verb = "RCPT" /\ smtp_reply' = OK) => sender_given
        /\ (verb = "DATA" /\ smtp_reply' = START_MAIL_INPUT) =>
               (sender_given /\ Len(smtp.envelope_.rcpt_to) >= 1)
        /\ (verb = "MAIL" /\ smtp.state_ = "CONNECTED") => smtp_reply' = BAD_SEQUENCE
        /\ (verb = "RCPT" /\ ~sender_given) => smtp_reply' = BAD_SEQUENCE
        /\ (verb = "DATA" /\ smtp.envelope_.rcpt_to = <<>>) => smtp_reply' = BAD_SEQUENCE
        /\ (verb \in {"MAIL", "RCPT", "DATA"} /\ smtp_reply' = BAD_SEQUENCE) =>
               (smtp' = smtp /\ sender_given' = sender_given)

C2_Envelope ==
    smtp.state_ \in {"RCPT", "DATA"} =>
        (sender_given /\ Len(smtp.envelope_.rcpt_to) >= 1)

C2_Theorem == [](C2_Envelope) /\ [][C2_InOrder]_vars

C2_Witness ==
    /\ smtp.state_ = "DATA"
    /\ smtp_input.verb = "DATA"
    /\ smtp_reply = START_MAIL_INPUT
    /\ Len(smtp.envelope_.rcpt_to) = 2

\* C4: RCPT TO appends its address to the envelope only if the domain is
\* local and the user exists, or the domain is remote and the session is
\* authenticated or relay-enabled; otherwise a well-formed RCPT TO is answered
\* 550 (local, no such user) or 530 (remote, relay denied) with the session
\* unchanged; and every hand-off to the outbound relay was made by a session
\* that was authenticated or relay-enabled at that moment.
RcptAcceptable(addr) ==
    IF SMTPSession_is_local_domain(addr.domain)
    THEN Txt(addr.local, TRUE, addr.domain) \in UsersTable
    ELSE smtp.authenticated_ \/ smtp.allow_relay_

C4_Rcpt ==
    smtp_input'.verb = "RCPT" =>
        LET arg == smtp_input'.arg
            wellformed == arg.at /\ arg.local # "" /\ arg.domain # ""
        IN  /\ smtp'.envelope_.rcpt_to # smtp.envelope_.rcpt_to =>
                  /\ smtp'.envelope_.rcpt_to = Append(smtp.envelope_.rcpt_to, arg)
                  /\ wellformed
                  /\ RcptAcceptable(arg)
            /\ ( /\ smtp.state_ \in {"MAIL", "RCPT"}
                 /\ Len(smtp.envelope_.rcpt_to) < MaxRecipients
                 /\ wellformed
                 /\ ~RcptAcceptable(arg) ) =>
                  /\ smtp_reply' = IF SMTPSession_is_local_domain(arg.domain)
                                   THEN MAILBOX_NOT_FOUND ELSE AUTH_REQUIRED
                  /\ smtp' = smtp
            /\ smtp_reply' \in {MAILBOX_NOT_FOUND, AUTH_REQUIRED} => smtp' = smtp

C4_NoOpenRelay == \A e \in relay_log : e.authorised

C4_Theorem == [](C4_NoOpenRelay) /\ [][C4_Rcpt]_vars

C4_Witness ==
    /\ smtp_input.verb = "RCPT"
    /\ smtp_input.arg = Txt("r", TRUE, "y")
    /\ smtp_reply = AUTH_REQUIRED
    /\ Len(smtp.envelope_.rcpt_to) = 1
    /\ local_log # {}

\* C5: with require_auth set, a MAIL FROM from a session that is not
\* authenticated is refused (530 once HELO/EHLO was given, 503 before it) and
\* changes nothing; authentication is never lost; so a session that has not
\* completed AUTH is never in state MAIL, RCPT or DATA and has caused no
\* local or remote delivery.
C5_MailRefused ==
    /\ smtp.authenticated_ => smtp'.authenticated_
    /\ (smtp_input'.verb = "MAIL" /\ smtp.require_auth_ /\ ~smtp.authenticated_) =>
          /\ smtp_reply' = IF smtp.state_ \in {"GREETED", "MAIL", "RCPT"}
                           THEN AUTH_REQUIRED ELSE BAD_SEQUENCE
          /\ smtp' = smtp

C5_NoMailWithoutAuth ==
    (smtp.require_auth_ /\ ~smtp.authenticated_) =>
        /\ smtp.state_ \notin {"MAIL", "RCPT", "DATA"}
        /\ local_log = {}
        /\ relay_log = {}

C5_Theorem == [](C5_NoMailWithoutAuth) /\ [][C5_MailRefused]_vars

C5_Witness ==
    /\ smtp_input.verb = "MAIL"
    /\ smtp_reply = AUTH_REQUIRED
    /\ smtp.require_auth_
    /\ ~smtp.authenticated_
    /\ smtp.state_ = "GREETED"

\* C3: a POP3 session starts in AUTHORIZATION; it enters TRANSACTION only by a
\* PASS answered +OK while a USER name that authenticates is pending, and
\* UPDATE only by a QUIT in TRANSACTION; STAT/LIST/RETR/DELE/RSET/TOP/UIDL in
\* AUTHORIZATION and USER/PASS in TRANSACTION are answered -ERR and change
\* neither the session nor the mailbox; a PASS whose authentication fails
\* clears the pending user name, and a PASS with no pending user name is
\* refused.
C3_Start == pop3_input = "connect" => pop3.state_ = "AUTHORIZATION"

C3_Step ==
    /\ pop3'.state_ # pop3.state_ =>
          \/ /\ pop3.state_ = "AUTHORIZATION" /\ pop3'.state_ = "TRANSACTION"
             /\ pop3_input' = "PASS" /\ pop3_reply'.ok
             /\ pop3.pending_username_ # EmptyStr
             /\ Authenticator_get_user(pop3.pending_username_)
          \/ /\ pop3.state_ = "TRANSACTION" /\ pop3'.state_ = "UPDATE"
             /\ pop3_input' = "QUIT"
    /\ ( \/ /\ pop3.state_ = "AUTHORIZATION"
            /\ pop3_input' \in {"STAT", "LIST", "RETR", "DELE", "RSET", "TOP", "UIDL"}
         \/ /\ pop3.state_ = "TRANSACTION"
            /\ pop3_input' \in {"USER", "PASS"} ) =>
          (~pop3_reply'.ok /\ pop3' = pop3 /\ fs' = fs)
    /\ (pop3_input' = "PASS" /\ pop3_reply'.what = "Authentication failed") =>
          pop3'.pending_username_ = EmptyStr
    /\ ( /\ pop3_input' = "PASS" /\ pop3.state_ = "AUTHORIZATION"
         /\ pop3.pending_username_ = EmptyStr ) =>
          (~pop3_reply'.ok /\ pop3' = pop3)

C3_Theorem == [](C3_Start) /\ [][C3_Step]_vars

C3_Witness ==
    /\ pop3_input = "PASS"
    /\ pop3_reply.what = "Authentication failed"
    /\ pop3.pending_username_ = EmptyStr
    /\ pop3.state_ = "AUTHORIZATION"

\* C3 as stated: every PASS answered -ERR in AUTHORIZATION leaves no pending
\* user name (so the next PASS needs a new USER).
C3_FailedPassClears ==
    (pop3_input' = "PASS" /\ pop3.state_ = "AUTHORIZATION" /\ ~pop3_reply'.ok) =>
        pop3'.pending_username_ = EmptyStr

C3_Original == [][C3_FailedPassClears]_vars

\* C1: the state of an IMAP session changes only by a LOGIN answered OK
\* (not-authenticated to authenticated), a SELECT or EXAMINE answered OK (to
\* selected), a CLOSE (selected to authenticated, the files of the \Deleted
\* messages of the selected mailbox removed) and a LOGOUT (to logout); a LOGIN
\* not answered OK leaves the session not-authenticated; and SELECT, LIST or
\* STATUS before LOGIN, FETCH, STORE, EXPUNGE, SEARCH, COPY, UID or CLOSE with
\* no mailbox selected, and LOGIN after LOGIN are answered BAD and leave the
\* state, the selected mailbox and the message cache unchanged.
C1_Start == imap_input = "connect" => imap.state_ = "NOT_AUTHENTICATED"

C1_Illegal ==
    \/ imap_input' \in {"SELECT", "LIST", "STATUS"} /\ imap.state_ = "NOT_AUTHENTICATED"
    \/ /\ imap_input' \in {"FETCH", "STORE", "EXPUNGE", "SEARCH", "COPY", "UID", "CLOSE"}
       /\ imap.state_ # "SELECTED"
    \/ imap_input' = "LOGIN" /\ imap.state_ # "NOT_AUTHENTICATED"

C1_Step ==
    /\ imap'.state_ # imap.state_ =>
          \/ /\ imap_input' = "LOGIN" /\ imap_reply'.tagged = "OK"
             /\ imap.state_ = "NOT_AUTHENTICATED" /\ imap'.state_ = "AUTHENTICATED"
          \/ /\ imap_input' \in {"SELECT", "EXAMINE"} /\ imap_reply'.tagged = "OK"
             /\ imap.state_ = "AUTHENTICATED" /\ imap'.state_ = "SELECTED"
          \/ /\ imap_input' = "CLOSE"
             /\ imap.state_ = "SELECTED" /\ imap'.state_ = "AUTHENTICATED"
          \/ imap_input' = "LOGOUT" /\ imap'.state_ = "LOGOUT"
    /\ (imap_input' = "LOGIN" /\ imap_reply'.tagged = "OK") =>
          imap'.state_ = "AUTHENTICATED"
    /\ (imap_input' = "LOGIN" /\ imap_reply'.tagged # "OK") => imap'.state_ = imap.state_
    /\ (imap_input' \in {"SELECT", "EXAMINE"} /\ imap_reply'.tagged = "OK") =>
          (imap'.state_ = "SELECTED" /\ imap'.selected_.set)
    /\ (imap_input' = "CLOSE" /\ imap.state_ = "SELECTED") =>
          /\ imap'.state_ = "AUTHENTICATED"
          /\ fs' = fs \ expunge_files(imap)
          /\ ~imap'.selected_.set
    /\ imap_input' = "LOGOUT" => imap'.state_ = "LOGOUT"
    /\ C1_Illegal =>
          /\ imap_reply'.tagged = "BAD"
          /\ imap'.state_ = imap.state_
          /\ imap'.selected_ = imap.selected_
          /\ imap'.messages_ = imap.messages_

C1_Theorem == [](C1_Start) /\ [][C1_Step]_vars

C1_Witness ==
    /\ imap_input = "CLOSE"
    /\ imap_reply.tagged = "OK"
    /\ imap.state_ = "AUTHENTICATED"
    /\ Cardinality(fs) = MaxMessages - 1

\* C9: at every point of a session (so after any sequence of SELECT, EXAMINE,
\* STORE, EXPUNGE and CLOSE) the k-th cached message has sequence number k,
\* the UIDs of the cached messages are pairwise different, and seq_to_uid_
\* and uid_to_seq_ are inverse maps over exactly the cached messages.
C9_Theorem ==
    LET m == imap.messages_
    IN  /\ \A i \in 1..Len(m) : m[i].sequence_number = i
        /\ \A i, j \in 1..Len(m) : i # j => m[i].uid # m[j].uid
        /\ DOMAIN imap.seq_to_uid_ = 1..Len(m)
        /\ DOMAIN imap.uid_to_seq_ = {m[i].uid : i \in 1..Len(m)}
        /\ \A i \in 1..Len(m) :
              /\ imap.seq_to_uid_[i] = m[i].uid
              /\ imap.uid_to_seq_[m[i].uid] = i

C9_Witness ==
    /\ imap_input = "EXPUNGE"
    /\ Len(imap_reply.untagged) = 1
    /\ Len(imap.messages_) = MaxMessages - 1
    /\ imap.messages_[1].uid = MaxMessages + 1
    /\ imap.uid_to_seq_[MaxMessages + 1] = 1

\* C10 as stated: an EXPUNGE on a selected mailbox removes from the maildir
\* and from the cache exactly the messages that carried \Deleted; every other
\* message moves down by the number of expunged messages before it; and the
\* untagged EXPUNGE responses name the old sequence numbers of the removed
\* messages in ascending order.
C10_Expunge ==
    (imap_input' = "EXPUNGE" /\ imap.state_ = "SELECTED") =>
        LET D == expunge_to_delete(imap)
            old == imap.messages_
            new == imap'.messages_
            shift(i) == i - Cardinality({d \in D : d < i})
        IN  /\ fs' = fs \ expunge_files(imap)
            /\ Len(new) = Len(old) - Cardinality(D)
            /\ \A i \in (1..Len(old)) \ D : new[shift(i)].unique_id = old[i].unique_id
            /\ imap_reply'.untagged =
                  [k \in 1..Cardinality(D) |-> U("EXPUNGE", Ascending(D)[k], 0, {})]

C10_Original == [][C10_Expunge]_vars

\* C8 as stated: under one UIDVALIDITY value a UID is reported for one message
\* only, over all the sessions of a client on the mailbox.
C8_Original ==
    \A v \in DOMAIN reported : \A u \in WatchedUids : Cardinality(reported[v][u]) <= 1

\* C6 as stated: every deliver() that returned a name added one message of its
\* own (as many files in new/ as names returned, no name returned twice), and
\* when no deliver() is running nothing is left in tmp/.
C6_Original ==
    LET returned == {i \in 1..Len(deliver_log) : deliver_log[i] # 0}
    IN  /\ Cardinality({f \in fs : f.dir = "new"}) = Cardinality(returned)
        /\ \A i, j \in returned : i # j => deliver_log[i] # deliver_log[j]
        /\ (\A w \in Writers : deliver_call[w].pc = "idle") =>
               {f \in fs : f.dir = "tmp"} = {}

\* C7 as stated: no two allocate_uid() calls return the same value, the first
\* value on a new mailbox is 1, and when no call is running the stored next
\* UID is one more than the number of calls made.
C7_Original ==
    /\ \A i, j \in 1..Len(uid_log) : i < j => uid_log[i] # uid_log[j]
    /\ Len(uid_log) >= 1 => uid_log[1] = 1
    /\ ((\A c \in Callers : uid_call[c].pc = "idle") /\ Len(uid_log) >= 1) =>
           uidfile.text = <<clock, Len(uid_log) + 1>>

\* C11 as stated: every message that is in the cache before and after an
\* EXPUNGE has the same UID after the command as before it.
C11_Expunge ==
    (imap_input' = "EXPUNGE" /\ imap_reply'.tagged = "OK") =>
        \A i \in 1..Len(imap.messages_) : \A j \in 1..Len(imap'.messages_) :
            imap'.messages_[j].unique_id = imap.messages_[i].unique_id =>
                imap'.messages_[j].uid = imap.messages_[i].uid

C11_Original == [][C11_Expunge]_vars

\* C12 as stated: after a STORE (FLAGS, +FLAGS or -FLAGS, silent or not) the
\* cached flag set of every message the command changed equals the IMAP flags
\* parsed from the name its file has now, and a STORE that is not silent reports
\* that flag set: STORE +FLAGS (\Seen) on a message just delivered answers
\* FLAGS (\Seen), the file being in cur/ with the flag letter S.
C12_Store ==
    (imap_input' = "STORE" /\ imap_reply'.tagged = "OK") =>
        /\ \A i \in 1..Len(imap'.messages_) :
              imap'.messages_[i] # imap.messages_[i] =>
                  \A f \in fs' :
                      (f.mbox = imap'.selected_.name /\ f.id = imap'.messages_[i].unique_id) =>
                          /\ f.dir = "cur"
                          /\ imap'.messages_[i].flags = maildir_to_imap_flags(f.flags)
        /\ \A k \in 1..Len(imap_reply'.untagged) :
              \A f \in fs' :
                  (/\ f.mbox = imap'.selected_.name
                   /\ f.id = imap'.messages_[imap_reply'.untagged[k].n].unique_id) =>
                      imap_reply'.untagged[k].flags = maildir_to_imap_flags(f.flags)

C12_Original == [][C12_Store]_vars

\* C13 as stated: a FETCH of BODY[] leaves every message it returned with \Seen
\* in its cached flag set and with the flag letter S on its file (so a second
\* fetch finds it set and changes nothing), and a FETCH of BODY.PEEK[] changes
\* no flag of any message, in the cache or in the maildir.
C13_Fetch ==
    /\ (imap_input' = "FETCH BODY[]" /\ imap_reply'.tagged = "OK") =>
          \A k \in 1..Len(imap_reply'.untagged) :
              imap_reply'.untagged[k].kind = "FETCH BODY[]" =>
                  /\ "\\Seen" \in imap'.messages_[imap_reply'.untagged[k].n].flags
                  /\ \A f \in fs' :
                        (/\ f.mbox = imap'.selected_.name
                         /\ f.id = imap'.messages_[imap_reply'.untagged[k].n].unique_id) =>
                            "S" \in f.flags
    /\ imap_input' = "FETCH BODY.PEEK[]" =>
          (imap'.messages_ = imap.messages_ /\ fs' = fs)

C13_Original == [][C13_Fetch]_vars

\* C14 as stated: UID FETCH answers for exactly the messages whose UID is in
\* the set, each response carrying the UID also when only FLAGS was asked for;
\* UID STORE changes only messages whose UID is in the set; every file UID COPY
\* adds is the copy of a message whose UID is in the set; UID SEARCH returns
\* the UIDs of the messages found.
C14_ByUid(q) == {i \in 1..Len(imap.messages_) : imap.messages_[i].uid \in q.set}

C14_Uid ==
    \A q \in SeqSets \ {NoSeqSet} :
        /\ \A item \in {"UID", "FLAGS"} :
              (handle_uid("FETCH", q, item, "", <<>>) /\ imap_input' = "UID") =>
                  /\ {imap_reply'.untagged[k].n : k \in 1..Len(imap_reply'.untagged)}
                        = C14_ByUid(q)
                  /\ \A k \in 1..Len(imap_reply'.untagged) :
                        imap_reply'.untagged[k].uid
                            = imap.messages_[imap_reply'.untagged[k].n].uid
        /\ \A type \in StoreTypes \ {""} :
              (handle_uid("STORE", q, "", type, <<>>) /\ imap_input' = "UID") =>
                  \A i \in 1..Len(imap.messages_) :
                      imap'.messages_[i] # imap.messages_[i] => i \in C14_ByUid(q)
        /\ \A names \in NewNames(Len(Targets(q))) :
              (handle_uid("COPY", q, "", "", names) /\ imap_input' = "UID") =>
                  \A f \in fs' \ fs :
                      \E i \in C14_ByUid(q) : \E g \in fs :
                          g.id = imap.messages_[i].unique_id /\ g.size = f.size
        /\ (handle_uid("SEARCH", NoSeqSet, "", "", <<>>) /\ imap_input' = "UID") =>
              {imap_reply'.untagged[k].uid : k \in 1..Len(imap_reply'.untagged)}
                  = {imap.messages_[i].uid : i \in 1..Len(imap.messages_)}

C14_Original == [][C14_Uid]_vars

\* C15 as stated: the UIDNEXT value a successful SELECT reports is greater than
\* the UID the session gave to every message of the mailbox it selected (2 or
\* more as soon as the mailbox holds a message).
C15_Original ==
    (imap_input = "SELECT" /\ imap_reply.tagged = "OK") =>
        \A k \in 1..Len(imap_reply.untagged) :
            imap_reply.untagged[k].kind = "UIDNEXT" =>
                \A i \in 1..Len(imap.messages_) :
                    imap_reply.untagged[k].n > imap.messages_[i].uid

\* C16 as stated: a COPY that is carried out answers OK when every message of
\* the set was copied and NO when a copy failed; in both cases no file that
\* was there is changed or removed and the copies made stay.
C16_Copy ==
    \A q \in SeqSets \ {NoSeqSet} : \A names \in NewNames(Len(Targets(q))) :
        (/\ imap.state_ = "SELECTED"
         /\ handle_copy(q, "INBOX", names)
         /\ imap_input' = "COPY") =>
            /\ imap_reply'.tagged =
                  (IF \A k \in 1..Len(names) : names[k] # 0 THEN "OK" ELSE "NO")
            /\ fs \subseteq fs'
            /\ {f.id : f \in fs' \ fs} = {names[k] : k \in 1..Len(names)} \ {0}

C16_Original == [][C16_Copy]_vars

\* C17: while a relayed message is read by a session in DATA, (1) a line "."
\* ends the accumulation and every other line that fits is stored without
\* its first character when that is a ".", whole otherwise; (2) no line the
\* relay writes for the body is ".", so the data ends at the relay's end
\* line and not before; (3) the lines stored are the lines of the body, in
\* order: stuffing and then unstuffing gives every body line back.
C17_Stored ==
    smtp.state_ = "DATA" =>
        /\ Len(smtp.data_buffer_) <= Len(relay.body)
        /\ \A i \in 1..Len(smtp.data_buffer_) : smtp.data_buffer_[i] = relay.body[i]
        /\ \A i \in 1..Len(relay.wire) :
              relay.wire[i] = <<".">> => (relay.pc = "end" /\ i = Len(relay.wire))

C17_Line ==
    (smtp.state_ = "DATA" /\ relay.wire # <<>> /\ relay'.wire = Tail(relay.wire)) =>
        LET line == Head(relay.wire)
            fits == BufferSize(smtp.data_buffer_) + Len(line) + 2 <= MaxMessageSize
        IN  /\ line = <<".">> =>
                  /\ smtp'.state_ = "GREETED"
                  /\ relay.pc = "end" /\ Len(relay.wire) = 1
                  /\ smtp.data_buffer_ = relay.body
            /\ (line # <<".">> /\ fits) =>
                  /\ smtp'.state_ = "DATA"
                  /\ Len(smtp'.data_buffer_) = Len(smtp.data_buffer_) + 1
                  /\ LET stored == smtp'.data_buffer_[Len(smtp'.data_buffer_)]
                     IN  IF line # <<>> /\ line[1] = "."
                         THEN /\ Len(stored) = Len(line) - 1
                              /\ \A i \in 1..Len(stored) : stored[i] = line[i + 1]
                         ELSE stored = line

C17_Theorem == [](C17_Stored) /\ [][C17_Line]_vars

\* a body with the line "." and a line "X" went through: the relay sent "..",
\* the session stored "." and the end line closed the message
C17_Witness ==
    /\ relay.body = << <<".">>, <<"X">> >>
    /\ relay.pc = "end"
    /\ relay.wire = <<>>
    /\ smtp.state_ = "GREETED"
    /\ smtp_reply \in {OK, LOCAL_ERROR}

\* C18: the data buffer (every stored line counted with its CR LF) never
\* holds more than max_message_size characters; a line of DATA that would
\* take it over the limit is answered 552 with nothing delivered, the envelope
\* and the buffer cleared and the state GREETED, and a line that fits is
\* stored without a reply.
RECURSIVE C18_Size(_)
C18_Size(buf) == IF buf = <<>> THEN 0 ELSE Len(buf[1]) + 2 + C18_Size(Tail(buf))

C18_Bounded == C18_Size(smtp.data_buffer_) <= MaxMessageSize

C18_Line ==
    \A line \in DataLines \ {<<".">>} :
        (smtp.state_ = "DATA" /\ smtp_input'.verb = "line" /\ process_data_line(line)) =>
            LET stored == IF line[1] = "." THEN Len(line) - 1 ELSE Len(line)
            IN  IF C18_Size(smtp.data_buffer_) + stored + 2 > MaxMessageSize
                THEN /\ smtp_reply' = EXCEEDED_STORAGE
                     /\ delivery' = <<>>
                     /\ local_log' = local_log /\ relay_log' = relay_log
                     /\ smtp'.envelope_ = Envelope_clear
                     /\ smtp'.data_buffer_ = <<>>
                     /\ smtp'.state_ = "GREETED"
                ELSE /\ smtp_reply' = 0
                     /\ smtp'.state_ = "DATA"
                     /\ C18_Size(smtp'.data_buffer_) = C18_Size(smtp.data_buffer_) + stored + 2

C18_Theorem == [](C18_Bounded) /\ [][C18_Line]_vars

\* a line of DATA was refused with 552 and the transaction is gone
C18_Witness ==
    /\ smtp_input.verb = "line"
    /\ smtp_reply = EXCEEDED_STORAGE
    /\ smtp.state_ = "GREETED"
    /\ smtp.envelope_ = Envelope_clear
    /\ smtp.data_buffer_ = <<>>

\* C19: when the line "." ends DATA the reply is 250 if every recipient of the
\* envelope was delivered (locally or through the relay) and 451 if one was
\* not; either way the envelope and the data buffer are empty and the state is
\* GREETED, and a MAIL FROM that comes next is not refused as out of sequence.
C19_End ==
    (smtp.state_ = "DATA" /\ smtp_input'.verb = "line" /\ process_data_line(<<".">>)) =>
        /\ Len(delivery') = Len(smtp.envelope_.rcpt_to)
        /\ smtp_reply' =
              (IF \A i \in 1..Len(delivery') : delivery'[i] \in {"local_ok", "relay_ok"}
               THEN OK ELSE LOCAL_ERROR)
        /\ smtp'.envelope_ = Envelope_clear
        /\ smtp'.data_buffer_ = <<>>
        /\ smtp'.state_ = "GREETED"

C19_NextMail ==
    (/\ smtp_input.verb = "line"
     /\ smtp_reply \in {OK, LOCAL_ERROR}
     /\ smtp_input'.verb = "MAIL") => smtp_reply' # BAD_SEQUENCE

C19_Theorem == [][C19_End /\ C19_NextMail]_vars

\* a message for two recipients ended with 451: one was delivered, one not
C19_Witness ==
    /\ smtp_input.verb = "line"
    /\ smtp_reply = LOCAL_ERROR
    /\ Len(delivery) = MaxRecipients
    /\ \E i \in 1..Len(delivery) : delivery[i] \in {"local_ok", "relay_ok"}
    /\ smtp.state_ = "GREETED"
    /\ smtp.envelope_ = Envelope_clear

\* C20: while an AUTH PLAIN or AUTH LOGIN exchange is pending, a line the
\* session reads is taken as the SASL response: it changes neither the state
\* nor the envelope, and it is answered 334 (the user name of AUTH LOGIN, the
\* password being asked for next), 235 with the session authenticated, or 535
\* with the session not authenticated, no user name pending and the AUTH
\* sub-state NONE, so that the next line is a command.  An AUTH command before
\* HELO/EHLO or on an authenticated session is answered 503 and changes nothing.
C20_Pending ==
    smtp.auth_state_ \in AuthWaiting => (~smtp.authenticated_ /\ smtp.state_ # "DATA")

C20_Step ==
    /\ (smtp.auth_state_ \in AuthWaiting /\ smtp_input'.verb # "admin") =>
          /\ smtp_input'.verb = "response"
          /\ smtp'.state_ = smtp.state_
          /\ smtp'.envelope_ = smtp.envelope_
          /\ \/ /\ smtp_reply' = AUTH_CONTINUE
                /\ smtp.auth_state_ = "LOGIN_WAITING_USERNAME"
                /\ smtp'.auth_state_ = "LOGIN_WAITING_PASSWORD"
                /\ ~smtp'.authenticated_
             \/ /\ smtp_reply' = AUTH_SUCCESS
                /\ smtp'.authenticated_
                /\ smtp'.auth_state_ = "AUTHENTICATED"
                /\ smtp'.auth_username_ = EmptyStr
             \/ /\ smtp_reply' = AUTH_INVALID
                /\ ~smtp'.authenticated_
                /\ smtp'.auth_state_ = "NONE"
                /\ smtp'.auth_username_ = EmptyStr
    /\ (smtp_input'.verb = "AUTH" /\ (smtp.state_ = "CONNECTED" \/ smtp.authenticated_)) =>
          (smtp_reply' = BAD_SEQUENCE /\ smtp' = smtp)
    /\ smtp_input'.verb = "response" => smtp.auth_state_ \in AuthWaiting

C20_Theorem == [](C20_Pending) /\ [][C20_Step]_vars

\* an AUTH exchange begun after MAIL FROM has failed: 535, nothing pending,
\* and the transaction is where it was
C20_Witness ==
    /\ smtp_input.verb = "response"
    /\ smtp_reply = AUTH_INVALID
    /\ smtp.auth_state_ = "NONE"
    /\ smtp.auth_username_ = EmptyStr
    /\ ~smtp.authenticated_
    /\ smtp.state_ = "MAIL"

\* C21 as stated: a RSET command leaves the session in GREETED with an empty
\* envelope, whatever state it was in.
C21_Original ==
    [][smtp_input'.verb = "RSET" =>
          (smtp'.state_ = "GREETED" /\ smtp'.envelope_ = Envelope_clear)]_vars

\* C21, amended: a RSET command is answered 250 and empties the envelope; it
\* leaves the session in GREETED when HELO/EHLO was given (states GREETED, MAIL
\* and RCPT) and in CONNECTED when it was not.  (In DATA and while an AUTH
\* exchange is pending no line is read as a command.)
C21_Rset ==
    smtp_input'.verb = "RSET" =>
        /\ smtp.state_ \in {"CONNECTED", "GREETED", "MAIL", "RCPT"}
        /\ smtp.auth_state_ \notin AuthWaiting
        /\ smtp_reply' = OK
        /\ smtp'.envelope_ = Envelope_clear
        /\ smtp'.state_ = (IF smtp.state_ = "CONNECTED" THEN "CONNECTED" ELSE "GREETED")
        /\ smtp'.authenticated_ = smtp.authenticated_

C21_Theorem == [][C21_Rset]_vars

\* a RSET was given before HELO/EHLO: the session is still in CONNECTED
C21_Witness ==
    /\ smtp_input.verb = "RSET"
    /\ smtp_reply = OK
    /\ smtp.state_ = "CONNECTED"
    /\ smtp.envelope_ = Envelope_clear

\* C22 as stated: deliver_remote contacts the MX hosts in ascending priority
\* (the domain itself when the lookup is empty), contacts no host after one
\* accepted, goes on to the next host when and only when the attempt ended with
\* an exception, carries a rejection reply out as the result, and ends with
\* the last error when the list is exhausted.
C22_Order ==
    mx.pc \notin {"idle", "call"} /\ mx.has_at =>
        /\ mx.answer = <<>> => mx.records = <<[hostname |-> 0, priority |-> 0]>>
        /\ \A i, j \in 1..Len(mx.records) :
              i < j => mx.records[i].priority <= mx.records[j].priority
        /\ mx.contacted = [k \in 1..mx.i |-> mx.records[k].hostname]
        /\ mx.result.success => mx.pc = "done"

C22_Returned == mx.pc \in Stages /\ (mx'.pc = "done" \/ mx'.i # mx.i)

C22_Moves ==
    C22_Returned =>
        /\ mx'.i # mx.i <=> (mx'.result.error.what = Throw /\ mx.i < Len(mx.records))
        /\ mx'.result.error.what \notin {"", Throw} =>
              (mx'.pc = "done" /\ mx'.result.error.response \in Responses)
        /\ mx'.pc = "done" /\ ~mx'.result.success => mx'.result.error.what # ""

C22_Original == [](C22_Order) /\ [][C22_Moves]_vars

\* C23 as stated: a call in which a host answered 250 to the end of the data
\* returns success whatever becomes of the QUIT, and no second host is offered
\* the message: at most one host accepts it.
C23_Original ==
    /\ Len(mx.accepted) <= 1
    /\ (mx.pc = "done" /\ mx.accepted # <<>>) => mx.result.success

\* C24: POP3 deletion is deferred.  No step of the session but a QUIT given in
\* TRANSACTION removes a file (DELE only marks, and the end of the session
\* without QUIT removes nothing); a QUIT in TRANSACTION removes exactly the
\* files of the messages marked at that moment and reports their number in
\* "+OK Goodbye, k messages deleted"; and the numbered list of the session
\* never changes after the login.
C24_Marked ==
    {f \in fs : \E num \in pop3.deleted_messages_ :
                   num <= Len(pop3.messages_) /\ pop3.messages_[num].unique_id = f.id}

C24_Step ==
    LET verb == pop3_input'
        quit == verb = "QUIT" /\ pop3.state_ = "TRANSACTION"
    IN  /\ quit => /\ fs' = fs \ C24_Marked
                   /\ pop3_reply' = [ok |-> TRUE, what |-> "Goodbye",
                                     n |-> Cardinality(fs \ fs'), octets |-> 0,
                                     lines |-> <<>>]
                   /\ pop3'.state_ = "UPDATE"
        /\ (~quit /\ verb \notin {"delivery", "removal"}) =>
               (fs' = fs /\ pop3'.state_ # "UPDATE")
        /\ verb = "DELE" /\ pop3_reply'.ok =>
               pop3'.deleted_messages_ = pop3.deleted_messages_ \cup {pop3_reply'.n}
        /\ verb = "disconnect" => (pop3'.stopped_ /\ pop3'.state_ = pop3.state_)
        /\ pop3.state_ # "AUTHORIZATION" => pop3'.messages_ = pop3.messages_
        /\ pop3.stopped_ => (pop3' = pop3 /\ verb \in {"delivery", "removal"})

C24_Theorem == [][C24_Step]_vars

\* a QUIT removed one of two messages: the one marked, and k = 1
C24_Witness ==
    /\ pop3_input = "QUIT"
    /\ pop3.state_ = "UPDATE"
    /\ pop3_reply.n = 1
    /\ Len(pop3.messages_) = 2
    /\ pop3.deleted_messages_ = {2}
    /\ \E f \in fs : f.id = pop3.messages_[1].unique_id
    /\ \A f \in fs : f.id # pop3.messages_[2].unique_id

\* C25: in a POP3 transaction STAT reports the number of loaded messages less
\* the number of marked ones and the sum of the sizes of the unmarked ones,
\* whatever DELE and RSET came before; a DELE of a marked or non-existent
\* number is answered -ERR and changes nothing; RSET unmarks every message.
C25_Marks == pop3.deleted_messages_ \subseteq 1..Len(pop3.messages_)

C25_Step ==
    LET verb == pop3_input'
        live == (1..Len(pop3.messages_)) \ pop3.deleted_messages_
    IN  pop3.state_ = "TRANSACTION" =>
          /\ verb = "STAT" =>
                /\ pop3_reply' = [ok |-> TRUE, what |-> "stat",
                                  n |-> Len(pop3.messages_)
                                           - Cardinality(pop3.deleted_messages_),
                                  octets |-> SumSizes(pop3.messages_, live),
                                  lines |-> <<>>]
                /\ pop3' = pop3
          /\ \A arg \in Pop3NumArgs :
                (verb = "DELE" /\ handle_dele(arg) /\ arg.given /\ arg.num \notin live) =>
                    (~pop3_reply'.ok /\ pop3' = pop3 /\ fs' = fs)
          /\ \A arg \in Pop3NumArgs :
                (verb = "DELE" /\ handle_dele(arg) /\ arg.num \in live) =>
                    (pop3_reply'.ok /\ pop3'.deleted_messages_
                                          = pop3.deleted_messages_ \cup {arg.num})
          /\ verb = "RSET" => (pop3_reply'.ok /\ pop3'.deleted_messages_ = {}
                                              /\ pop3'.messages_ = pop3.messages_)

C26_Returns ==
    LET call == md_call["A"]
        id == call.unique_id
        old == {f \in call.before : f.id = id}
        now == {f \in fs' : f.id = id}
        had == (CHOOSE f \in old : TRUE).flags
        asked == IF call.op = "set_flags" THEN call.flags
                 ELSE IF call.op = "add_flags" THEN had \cup call.flags
                 ELSE had \ call.flags
    IN  (call.pc # "idle" /\ md_call'["A"].pc = "idle") =>
            /\ old # {}
            /\ md_call'["A"].ret = "true"
            /\ Cardinality(now) = 1
            /\ \A f \in now : f.mbox = "INBOX" /\ f.dir = "cur" /\ f.flags = asked
            /\ {f \in fs' : f.id # id} = {f \in call.before : f.id # id}

C26_Theorem == [][C26_Returns]_vars

\* add_flags({T}) returned on a message that was new: it is in cur/ with T
C26_Witness ==
    LET call == md_call["A"]
    IN  /\ call.pc = "idle"
        /\ call.op = "add_flags"
        /\ call.flags = {"T"}
        /\ call.ret = "true"
        /\ \E f \in call.before : f.id = call.unique_id /\ f.dir = "new"
        /\ \E f \in fs : f.id = call.unique_id /\ f.dir = "cur" /\ f.flags = {"T"}

\* C27: when two sessions change the flags of one message at the same time,
\* the message is neither lost nor duplicated: there is exactly one file of
\* its unique name at every moment, and once a rename was made its name is the
\* one the last rename wrote.
C27_OneFile ==
    \A id \in MsgIds :
        /\ Cardinality({f \in fs : f.id = id}) = 1
        /\ \A f \in fs : (f.id = id /\ renamed[id] # NoPath) => MdPath(f) = renamed[id]

C27_Calls ==
    \A c \in Callers :
        (md_call[c].pc # "idle" /\ md_call'[c].pc = "idle" /\ md_call'[c].ret = "true") =>
            \E f \in fs' : /\ f.id = md_call[c].unique_id
                           /\ f.dir = "cur"
                           /\ f.flags = md_call[c].new_flags

C27_Theorem == [](C27_OneFile) /\ [][C27_Calls]_vars

\* two calls for one message ran into each other: one made its rename, the
\* other found the file gone
C27_Witness ==
    /\ md_call["A"].pc = "idle" /\ md_call["B"].pc = "idle"
    /\ md_call["A"].unique_id = md_call["B"].unique_id
    /\ md_call["A"].ret = "true"
    /\ md_call["B"].ret \in {"false", "throw"}
    /\ Cardinality({f \in fs : f.id = md_call["A"].unique_id}) = 1

\* C28 as stated: no line the client sent in plaintext is executed once the
\* session is in TLS: what was buffered behind the STARTTLS (STLS) line is
\* discarded when TLS starts, in all three protocols.
C28_Original ==
    \A i \in 1..Len(conn.executed) :
        conn.executed[i].is_tls => conn.executed[i].via = "tls"

\* C29 as stated: when the closing command has closed the connection, its
\* final response (POP3 +OK Goodbye, SMTP 221, IMAP BYE and the tagged OK)
\* has been written to the socket.
C29_Original ==
    conn.pc = "stopped" =>
        /\ \E i \in 1..Len(conn.written) : conn.written[i].data = "QUIT"
        /\ conn.proto = "IMAP" =>
               \E i \in 1..Len(conn.written) : conn.written[i].data = "BYE"

\* C30 as stated: no line ends the server process, and a command whose
\* message number is not a number (RETR x, LIST x, DELE x, TOP x 1, UIDL x)
\* is answered -ERR and leaves the session as it was.
C30_Number(text) == text # <<>> /\ \A i \in 1..Len(text) : IsDigit(text[i])

C30_Line ==
    \A verb \in NumberVerbs, text \in ArgTexts :
        (Pop3_process_command(verb, text) /\ text # <<>> /\ ~C30_Number(text)) =>
            (running' /\ ~pop3_reply'.ok /\ pop3' = pop3 /\ fs' = fs)

C30_Original == [](running) /\ [][C30_Line]_vars

\* C31 as stated: the bytes reach the socket in the order of the send()
\* calls, for every interleaving of the threads of the pool: what was written
\* is the beginning of what was sent, and at most one asynchronous write of a
\* session is in flight.
C31_Original ==
    /\ Len(conn.written) <= Len(conn.sent)
    /\ \A i \in 1..Len(conn.written) : conn.written[i].data = conn.sent[i]
    /\ Len(conn.inflight) <= 1

\* C32 as stated: the response that accepts STARTTLS (STLS) is on the
\* plaintext stream, written completely before the socket is replaced by the
\* TLS stream and the handshake begins.
C32_Original ==
    \A i \in 1..Len(conn.written) :
        conn.written[i].data = "STARTTLS" => conn.written[i].via = "plain"

\* C34 as stated: the callbacks of one session never run at the same time:
\* of the handler of a line and the functions send() posted, at most one is
\* running, so no two threads are in write_queue_ and stopped_ at once.
C34_Original ==
    (IF conn.pc \in {"closing", "stopping"} THEN 1 ELSE 0) + Len(conn.entered) <= 1

\* C35 as stated: stop() is idempotent for every interleaving of its callers:
\* on_disconnect() is called and the socket closed exactly once.
C35_Original == conn.disconnects <= 1

\* C33 as stated: on_connect() is called exactly once for a session; on an
\* implicit-TLS listener only after the TLS handshake has completed (no call
\* while the session is still in the handshake), on a plain listener right
\* after the accept.
C33_Original ==
    \A id \in Sessions :
        /\ Len(server.greeted[id]) <= 1
        /\ server.state[id] = "open" => Len(server.greeted[id]) = 1
        /\ \A i \in 1..Len(server.greeted[id]) : server.greeted[id][i] # "handshaking"

\* C36 as stated: a completion of the timer that belongs to a period a later
\* read has superseded (cancelled, or expired and waiting for its handler
\* when the read armed the timer again) does not stop the session.
C36_Original == ~timer.by_stale

\* C37 as stated: sessions_ holds exactly the connections that were accepted
\* and are not closed yet (a session leaves it when it stops), never more
\* than max_connections_ of them.
C37_Original ==
    /\ server.sessions_ = Live(server)
    /\ Cardinality(server.sessions_) <= MaxConnections

\* C38 as stated: a mailbox opened with EXAMINE is read-only: while it is
\* selected, no STORE, EXPUNGE, CLOSE or FETCH changes the flags of a message,
\* moves it from new/ to cur/ or removes it.
C38_Original ==
    [][(/\ imap.state_ = "SELECTED"
        /\ imap.selected_.set
        /\ imap.selected_.read_only
        /\ imap_input' \in {"STORE", "EXPUNGE", "CLOSE", "FETCH"}) => fs' = fs]_vars

\* C39 as stated: in the TRANSACTION state a message marked with DELE is
\* invisible to every listing: the multi-line LIST and UIDL have no line for
\* it, and as many lines as STAT counts messages.
C39_Original ==
    (/\ pop3_input \in {"LIST", "UIDL"}
     /\ pop3_reply.ok
     /\ pop3_reply.what \in {"messages", "uidl listing"}) =>
        /\ \A k \in 1..Len(pop3_reply.lines) :
               pop3_reply.lines[k].number \notin pop3.deleted_messages_
        /\ Len(pop3_reply.lines) = Pop3_total_messages(pop3)

\* C40 as stated: the content of a message is never executed as commands:
\* after DATA was accepted, every line the client writes up to and including
\* the terminating "." is taken as data, also when the message is rejected
\* with 552 part-way.
C40_Original ==
    [][Len(relay'.wire) < Len(relay.wire) => smtp_input'.verb = "line"]_vars

====
